---- MODULE Spec2Model ----
(***************************************************************************)
(* The advocacy ETL pipeline (backend/etl/pipeline.py) with its raw and    *)
(* clean record models (backend/models/raw.py, backend/models/clean.py).   *)
(*                                                                         *)
(* Identities (UUIDs) are natural numbers; uuid4() draws the next unused   *)
(* one.  An optional value is a sequence of length 0 (None) or 1.          *)
(* Text that the code parses is a tuple of one-character strings.          *)
(***************************************************************************)
EXTENDS Integers, Sequences, FiniteSets, TLC

VARIABLES
  store,                \* the committed rows of the database, table by table
  tx,                   \* the rows as the pipeline's connection sees them
  lpc,                  \* position of load_to_database
  clean_data,           \* the batch handed to load_to_database / built by Transform
  stmts,                \* the statements the running load executes, in order
  pos,                  \* index of the next statement
  email_to_account_id,  \* load_to_database's email -> storage account_id map
  wlog,                 \* the statements executed so far in this transaction
  pre,                  \* the committed rows when the running load began
  outcome,              \* how the last load ended, and why
  reload,               \* the running load repeats the instance's last committed batch
  views,                \* state of the materialized views
  import_id,            \* AdvocacyETL.import_id
  data_quality_issues,  \* AdvocacyETL.data_quality_issues
  advocate_accounts,    \* AdvocacyETL.advocate_accounts (email -> account cache)
  stats,                \* AdvocacyETL.stats
  loads,                \* number of loads started
  instances,            \* number of AdvocacyETL instances constructed
  nextId,               \* uuid4(): the next unused identity
  tpc,                  \* position of transform_user_data
  raw_done,             \* the raw records Transform has consumed, in order
  resolved,             \* the account resolutions asked of the instance, in order
  json_files,           \* the *.json files of data_dir: text on disk and document
  epc,                  \* position of extract_json_files
  fpos,                 \* index of the file the running loop of Extract is at
  valid_files,          \* extract_json_files: indices of the files that validated
  raw_data,             \* extract_json_files: the parsed documents, in order
  rpc,                  \* position of run
  summary,              \* print_summary has printed the statistics
  conn                  \* AdvocacyETL.conn

loadVars == <<store, tx, lpc, stmts, pos, email_to_account_id, wlog, pre,
              outcome, reload, views, loads, instances>>
etlVars == <<import_id, data_quality_issues, advocate_accounts, stats,
             clean_data, nextId>>
transformVars == <<tpc, raw_done>>
extractVars == <<json_files, epc, fpos, valid_files, raw_data>>
runVars == <<rpc, summary, conn>>
otherVars == <<resolved, extractVars, runVars>>
vars == <<loadVars, etlVars, transformVars, otherVars>>

None == <<>>
Some(x) == <<x>>

(***************************************************************************)
(* Bounds of the model.                                                    *)
(***************************************************************************)
MaxLoads == 2        \* loads started in one behaviour
MaxInstances == 2    \* AdvocacyETL instances in one behaviour
MaxIssues == 1       \* quality issues an instance holds when Load is called
MaxRecords == 2      \* raw records in the batch given to Transform
MaxResolutions == 2  \* direct account resolutions asked of one instance
MaxFiles == 2        \* *.json files in data_dir

(***************************************************************************)
(* Storage: one set of rows per table.                                     *)
(***************************************************************************)
EmptyDb ==
  [ raw_imports |-> {}, advocate_accounts |-> {}, advocate_users |-> {},
    programs |-> {}, sales_attribution |-> {}, tasks |-> {},
    social_analytics |-> {}, data_quality_issues |-> {} ]

ZeroStats ==
  [ files_processed |-> 0, files_failed |-> 0, accounts_created |-> 0,
    users_created |-> 0, programs_created |-> 0, tasks_created |-> 0,
    analytics_created |-> 0, sales_created |-> 0, quality_issues |-> 0 ]

Res(ok, db, ret) == [ok |-> ok, db |-> db, ret |-> ret]

\* Foreign keys of the schema: the parent row a written row must reference.
ImportExists(t, id) == \E r \in t.raw_imports : r.import_id = id
AccountExists(t, id) == \E r \in t.advocate_accounts : r.account_id = id
UserExists(t, id) == \E r \in t.advocate_users : r.user_id = id
ProgramExists(t, id) == \E r \in t.programs : r.program_id = id
TaskExists(t, id) == \E r \in t.tasks : r.task_id = id

\* a plain INSERT INTO raw_imports: a second row of a run is a key violation
InsertImportPlain(t, imp) ==
  IF ImportExists(t, imp)
  THEN Res(FALSE, t, 0)
  ELSE Res(TRUE,
           [t EXCEPT !.raw_imports = @ \cup
              {[import_id |-> imp, processing_status |-> "processing",
                records_count |-> None]}],
           imp)

\* INSERT INTO raw_imports ... ON CONFLICT (import_id) DO NOTHING
InsertImport(t, imp) ==
  IF ImportExists(t, imp)
  THEN Res(TRUE, t, imp)
  ELSE Res(TRUE,
           [t EXCEPT !.raw_imports = @ \cup
              {[import_id |-> imp, processing_status |-> "processing",
                records_count |-> None]}],
           imp)

\* an account insert that does not arbitrate on the email
UpsertAccountAlwaysInsert(t, a) ==
  IF AccountExists(t, a.account_id)
  THEN Res(FALSE, t, 0)
  ELSE Res(TRUE,
           [t EXCEPT !.advocate_accounts = @ \cup
              {[account_id |-> a.account_id, email |-> a.email,
                metadata |-> a.metadata]}],
           a.account_id)

\* INSERT INTO advocate_accounts ... ON CONFLICT (email) DO UPDATE SET
\* metadata = EXCLUDED.metadata RETURNING account_id
UpsertAccount(t, a) ==
  LET same == {r \in t.advocate_accounts : r.email = a.email}
  IN  IF same # {}
      THEN LET old == CHOOSE r \in same : TRUE
           IN  Res(TRUE,
                   [t EXCEPT !.advocate_accounts =
                      (@ \ same) \cup {[old EXCEPT !.metadata = a.metadata]}],
                   old.account_id)
      ELSE IF AccountExists(t, a.account_id)
      THEN Res(FALSE, t, 0)
      ELSE Res(TRUE,
               [t EXCEPT !.advocate_accounts = @ \cup
                  {[account_id |-> a.account_id, email |-> a.email,
                    metadata |-> a.metadata]}],
               a.account_id)

\* a user insert that skips on conflict (ON CONFLICT DO NOTHING)
UpsertUserSkipOnConflict(t, u, actual_account_id) ==
  IF ~AccountExists(t, actual_account_id)
  THEN Res(FALSE, t, 0)
  ELSE IF UserExists(t, u.user_id)
  THEN Res(TRUE, t, u.user_id)
  ELSE Res(TRUE,
           [t EXCEPT !.advocate_users = @ \cup
              {[user_id |-> u.user_id, account_id |-> actual_account_id,
                name |-> u.name, instagram_handle |-> u.instagram_handle,
                tiktok_handle |-> u.tiktok_handle]}],
           u.user_id)

\* INSERT INTO advocate_users ... ON CONFLICT (user_id) DO UPDATE SET
\* account_id, name, instagram_handle, tiktok_handle (joined_at, updated_at)
UpsertUser(t, u, actual_account_id) ==
  LET same == {r \in t.advocate_users : r.user_id = u.user_id}
      row == [user_id |-> u.user_id, account_id |-> actual_account_id,
              name |-> u.name, instagram_handle |-> u.instagram_handle,
              tiktok_handle |-> u.tiktok_handle]
  IN  IF ~AccountExists(t, actual_account_id)
      THEN Res(FALSE, t, 0)
      ELSE Res(TRUE, [t EXCEPT !.advocate_users = (@ \ same) \cup {row}],
               u.user_id)

\* INSERT INTO programs ... ON CONFLICT (program_id) DO UPDATE SET brand
UpsertProgram(t, p) ==
  LET same == {r \in t.programs : r.program_id = p.program_id}
  IN  IF same # {}
      THEN Res(TRUE,
               [t EXCEPT !.programs =
                  {IF r \in same THEN [r EXCEPT !.brand = p.brand] ELSE r
                     : r \in @}],
               p.program_id)
      ELSE IF ~UserExists(t, p.user_id)
      THEN Res(FALSE, t, 0)
      ELSE Res(TRUE,
               [t EXCEPT !.programs = @ \cup
                  {[program_id |-> p.program_id, user_id |-> p.user_id,
                    brand |-> p.brand]}],
               p.program_id)

\* a variant for a table whose program_id column has no unique constraint
UpsertSalesNoUnique(t, s) ==
  LET same == {r \in t.sales_attribution : r.attribution_id = s.attribution_id}
  IN  IF same # {}
      THEN Res(TRUE,
               [t EXCEPT !.sales_attribution =
                  {IF r \in same THEN [r EXCEPT !.amount = s.amount] ELSE r
                     : r \in @}],
               s.attribution_id)
      ELSE IF ~ProgramExists(t, s.program_id)
      THEN Res(FALSE, t, 0)
      ELSE Res(TRUE,
               [t EXCEPT !.sales_attribution = @ \cup
                  {[attribution_id |-> s.attribution_id,
                    program_id |-> s.program_id, amount |-> s.amount]}],
               s.attribution_id)

\* INSERT INTO sales_attribution ... ON CONFLICT (attribution_id) DO UPDATE
\* SET amount; program_id carries a foreign key and a unique constraint
\* (CleanSalesAttribution.program_id, "unique constraint in DB")
UpsertSales(t, s) ==
  LET same == {r \in t.sales_attribution : r.attribution_id = s.attribution_id}
  IN  IF same # {}
      THEN Res(TRUE,
               [t EXCEPT !.sales_attribution =
                  {IF r \in same THEN [r EXCEPT !.amount = s.amount] ELSE r
                     : r \in @}],
               s.attribution_id)
      ELSE IF \/ ~ProgramExists(t, s.program_id)
              \/ \E r \in t.sales_attribution : r.program_id = s.program_id
      THEN Res(FALSE, t, 0)
      ELSE Res(TRUE,
               [t EXCEPT !.sales_attribution = @ \cup
                  {[attribution_id |-> s.attribution_id,
                    program_id |-> s.program_id, amount |-> s.amount]}],
               s.attribution_id)

\* INSERT INTO tasks ... ON CONFLICT (task_id) DO UPDATE SET platform
\* (post_url, posted_at, updated_at)
UpsertTask(t, k) ==
  LET same == {r \in t.tasks : r.task_id = k.task_id}
  IN  IF same # {}
      THEN Res(TRUE,
               [t EXCEPT !.tasks =
                  {IF r \in same THEN [r EXCEPT !.platform = k.platform] ELSE r
                     : r \in @}],
               k.task_id)
      ELSE IF ~ProgramExists(t, k.program_id)
      THEN Res(FALSE, t, 0)
      ELSE Res(TRUE,
               [t EXCEPT !.tasks = @ \cup
                  {[task_id |-> k.task_id, program_id |-> k.program_id,
                    platform |-> k.platform]}],
               k.task_id)

\* INSERT INTO social_analytics ... ON CONFLICT (task_id, measured_at)
\* DO UPDATE SET likes, comments, shares, reach
UpsertAnalytics(t, a) ==
  LET same == {r \in t.social_analytics :
                 r.task_id = a.task_id /\ r.measured_at = a.measured_at}
  IN  IF same # {}
      THEN Res(TRUE,
               [t EXCEPT !.social_analytics =
                  {IF r \in same
                   THEN [r EXCEPT !.likes = a.likes, !.comments = a.comments,
                                  !.shares = a.shares, !.reach = a.reach]
                   ELSE r : r \in @}],
               a.analytics_id)
      ELSE IF \/ ~TaskExists(t, a.task_id)
              \/ \E r \in t.social_analytics : r.analytics_id = a.analytics_id
      THEN Res(FALSE, t, 0)
      ELSE Res(TRUE,
               [t EXCEPT !.social_analytics = @ \cup
                  {[analytics_id |-> a.analytics_id, task_id |-> a.task_id,
                    likes |-> a.likes, comments |-> a.comments,
                    shares |-> a.shares, reach |-> a.reach,
                    measured_at |-> a.measured_at]}],
               a.analytics_id)

\* INSERT INTO data_quality_issues (no ON CONFLICT clause)
InsertIssue(t, i) ==
  IF \/ ~ImportExists(t, i.import_id)
     \/ \E r \in t.data_quality_issues : r.issue_id = i.issue_id
  THEN Res(FALSE, t, 0)
  ELSE Res(TRUE,
           [t EXCEPT !.data_quality_issues = @ \cup
              {[issue_id |-> i.issue_id, import_id |-> i.import_id,
                severity |-> i.severity, issue_type |-> i.issue_type]}],
           i.issue_id)

\* UPDATE raw_imports SET processing_status = 'completed', records_count = n
\* WHERE import_id = imp
CompleteImport(t, imp, n) ==
  Res(TRUE,
      [t EXCEPT !.raw_imports =
         {IF r.import_id = imp
          THEN [r EXCEPT !.processing_status = "completed",
                         !.records_count = Some(n)]
          ELSE r : r \in @}],
      imp)


(***************************************************************************)
(* load_to_database: the statements of one load, in the order the code     *)
(* issues them.                                                            *)
(***************************************************************************)
\* owner: the identity of the entity whose loop body issues the statement
Stmt(kind, arg, owner) == [kind |-> kind, arg |-> arg, owner |-> owner]

RECURSIVE Flatten(_)
Flatten(ss) == IF ss = <<>> THEN <<>> ELSE Head(ss) \o Flatten(Tail(ss))

\* STEP 1: one account upsert per email, at the email's first entry
\* (processed_emails)
AccountStmts(cd) ==
  Flatten([i \in 1..Len(cd) |->
    IF \E j \in 1..(i-1) : cd[j].account.email = cd[i].account.email
    THEN <<>>
    ELSE <<Stmt("account", cd[i].account, 0)>>])

\* the task loop: each task, then its analytics if present
TaskStmts(task_data, program_id) ==
  Flatten([j \in 1..Len(task_data) |->
    <<Stmt("task", task_data[j].task, program_id)>> \o
    (IF task_data[j].analytics # None
     THEN <<Stmt("analytics", task_data[j].analytics[1],
                 task_data[j].task.task_id)>>
     ELSE <<>>)])

\* the program loop: each program, its sales if present, then its tasks
ProgramStmts(program_data, user_id) ==
  Flatten([j \in 1..Len(program_data) |->
    <<Stmt("program", program_data[j].program, user_id)>> \o
    (IF program_data[j].sales # None
     THEN <<Stmt("sales", program_data[j].sales[1],
                 program_data[j].program.program_id)>>
     ELSE <<>>) \o
    TaskStmts(program_data[j].tasks, program_data[j].program.program_id)])

\* STEP 2 and 3: each user, followed by everything nested under it
UserStmts(cd) ==
  Flatten([i \in 1..Len(cd) |->
    <<Stmt("user", [user |-> cd[i].user, email |-> cd[i].account.email], 0)>>
      \o ProgramStmts(cd[i].programs, cd[i].user.user_id)])

\* STEP 4: every accumulated quality issue
IssueStmts(issues) == [i \in 1..Len(issues) |-> Stmt("issue", issues[i], 0)]

\* a transaction body that writes the run metadata after the entities
LoadStatementsImportLast(cd, issues, imp) ==
  AccountStmts(cd) \o UserStmts(cd)
    \o <<Stmt("import", [import_id |-> imp], 0)>> \o IssueStmts(issues)
    \o <<Stmt("complete", [import_id |-> imp, records_count |-> Len(cd)], 0)>>

\* the whole transaction body, STEP 0 to STEP 5
LoadStatements(cd, issues, imp) ==
  <<Stmt("import", [import_id |-> imp], 0)>> \o AccountStmts(cd)
    \o UserStmts(cd) \o IssueStmts(issues)
    \o <<Stmt("complete", [import_id |-> imp, records_count |-> Len(cd)], 0)>>

\* cursor.execute of one statement against the connection's rows
Exec(s, t, map) ==
  CASE s.kind = "import" -> InsertImport(t, s.arg.import_id)
    [] s.kind = "account" -> UpsertAccount(t, s.arg)
    [] s.kind = "user" ->
         IF s.arg.email \in DOMAIN map
         THEN UpsertUser(t, s.arg.user, map[s.arg.email])
         ELSE Res(FALSE, t, 0)
    [] s.kind = "program" -> UpsertProgram(t, s.arg)
    [] s.kind = "sales" -> UpsertSales(t, s.arg)
    [] s.kind = "task" -> UpsertTask(t, s.arg)
    [] s.kind = "analytics" -> UpsertAnalytics(t, s.arg)
    [] s.kind = "issue" -> InsertIssue(t, s.arg)
    [] s.kind = "complete" ->
         CompleteImport(t, s.arg.import_id, s.arg.records_count)

\* the row a statement's row references (0: none)
StmtParent(s, map) ==
  CASE s.kind = "user" -> map[s.arg.email]
    [] s.kind = "program" -> s.arg.user_id
    [] s.kind = "sales" -> s.arg.program_id
    [] s.kind = "task" -> s.arg.program_id
    [] s.kind = "analytics" -> s.arg.task_id
    [] s.kind = "issue" -> s.arg.import_id
    [] OTHER -> 0

\* self.stats[...] += 1 after the execute of an entity row
CountStmt(st, kind) ==
  CASE kind = "user" -> [st EXCEPT !.users_created = @ + 1]
    [] kind = "program" -> [st EXCEPT !.programs_created = @ + 1]
    [] kind = "sales" -> [st EXCEPT !.sales_created = @ + 1]
    [] kind = "task" -> [st EXCEPT !.tasks_created = @ + 1]
    [] kind = "analytics" -> [st EXCEPT !.analytics_created = @ + 1]
    [] OTHER -> st

\* a handler that leaves the transaction's writes in place
RollbackKeepsWrites(committed, working) == working

\* self.conn.rollback(): the committed rows are what remains
Rollback(committed, working) == committed

\* self.conn.commit(): the connection's rows become the committed rows
Commit(committed, working) == working

EmptyMap == [e \in {} |-> 0]
NoOutcome == [result |-> "none", cause |-> "none"]

(***************************************************************************)
(* Batches handed to load_to_database.  n numbers the load, so that the    *)
(* identities a clean model generates itself (account_id, attribution_id,  *)
(* analytics_id, measured_at) are new in every batch, while user, program  *)
(* and task identities come from the input and recur.  The metadata of an  *)
(* account is the set of its keys; the first load and the later loads      *)
(* bring different keys.                                                   *)
(***************************************************************************)
Account(n, k, email) ==
  [account_id |-> 100 * n + k, email |-> email,
   metadata |-> IF n = 1 THEN {"source"} ELSE {"tier"}]

User(id, acct, name, handle) ==
  [user_id |-> id, account_id |-> acct.account_id, name |-> Some(name),
   instagram_handle |-> None, tiktok_handle |-> Some(handle)]

Analytics(n, task) ==
  [analytics_id |-> 100 * n + 21, task_id |-> task, likes |-> Some(10),
   comments |-> None, shares |-> Some(n), reach |-> None,
   impressions |-> None, measured_at |-> n]

EntryA(n) ==
  LET a == Account(n, 1, "ann@x.io")
  IN  [user |-> User(1, a, "Ann", "@ann"), programs |-> <<>>, account |-> a]

EntryB(n) ==
  LET a == Account(n, 1, "ann@x.io")
  IN  [user |-> User(2, a, "Bob", "@bob"),
       programs |->
         << [program |-> [program_id |-> 31, user_id |-> 2, brand |-> "Acme"],
             tasks |-> << [task |-> [task_id |-> 41, program_id |-> 31,
                                     platform |-> "TikTok"],
                           analytics |-> Some(Analytics(n, 41))] >>,
             sales |-> None] >>,
       account |-> a]

EntryC(n) ==
  LET a == Account(n, 2, "cy@x.io")
  IN  [user |-> User(1, a, "Anne", "@anne"),
       programs |->
         << [program |-> [program_id |-> 31, user_id |-> 1, brand |-> "Zed"],
             tasks |-> <<>>,
             sales |-> Some([attribution_id |-> 100 * n + 11,
                             program_id |-> 31, amount |-> 5])] >>,
       account |-> a]

\* a program that references a user that exists nowhere
EntryD(n) ==
  LET a == Account(n, 2, "cy@x.io")
  IN  [user |-> User(2, a, "Rob", "@rob"),
       programs |->
         << [program |-> [program_id |-> 32, user_id |-> 9, brand |-> "Acme"],
             tasks |-> <<>>, sales |-> None] >>,
       account |-> a]

Batches(n) ==
  { <<>>, <<EntryA(n)>>, <<EntryD(n)>>, <<EntryA(n), EntryB(n)>>,
    <<EntryB(n), EntryC(n)>>, <<EntryC(n), EntryA(n)>> }

\* the issues an instance has accumulated before Load is called
Issues(inst, k) ==
  [j \in 1..k |->
    [issue_id |-> 1000 * inst + j, import_id |-> 900 + inst,
     severity |-> "medium", issue_type |-> "missing_brand",
     record_id |-> Some(1), field |-> Some("brand"), value |-> None]]

(***************************************************************************)
(* Actions of the Load stage.                                              *)
(***************************************************************************)
LoadIdle == lpc \in {"idle", "done", "failed"}

\* AdvocacyETL(db_config): a new pipeline instance over the same database
NewInstance ==
  /\ lpc \in {"done", "failed"}
  /\ instances < MaxInstances
  /\ instances' = instances + 1
  /\ \E k \in 0..MaxIssues :
       /\ data_quality_issues' = Issues(instances + 1, k)
       /\ stats' = [ZeroStats EXCEPT !.quality_issues = k]
  /\ import_id' = 900 + instances + 1
  /\ advocate_accounts' = EmptyMap
  /\ clean_data' = <<>>
  /\ lpc' = "idle"
  /\ outcome' = NoOutcome
  /\ reload' = FALSE
  /\ UNCHANGED <<store, tx, stmts, pos, email_to_account_id, wlog, pre, views,
                 loads, nextId, transformVars, otherVars>>

\* load_to_database(clean_data) up to cursor.execute("BEGIN;")
LoadBegin ==
  /\ LoadIdle
  /\ loads < MaxLoads
  /\ \E batch \in Batches(loads + 1) \cup
                    (IF lpc = "done" THEN {clean_data} ELSE {}) :
       /\ clean_data' = batch
       /\ reload' = (lpc = "done" /\ batch = clean_data)
       /\ stmts' = LoadStatements(batch, data_quality_issues, import_id)
  /\ loads' = loads + 1
  /\ lpc' = "tx"
  /\ pos' = 1
  /\ tx' = store
  /\ pre' = store
  /\ wlog' = <<>>
  /\ email_to_account_id' = EmptyMap
  /\ outcome' = NoOutcome
  /\ UNCHANGED <<store, views, instances, import_id, data_quality_issues,
                 advocate_accounts, stats, nextId, transformVars, otherVars>>

\* except Exception: self.conn.rollback(); raise
Raise(cause) ==
  /\ store' = Rollback(store, tx)
  /\ tx' = store'
  /\ lpc' = "failed"
  /\ outcome' = [result |-> "raised", cause |-> cause]
  /\ UNCHANGED <<stmts, pos, email_to_account_id, wlog, pre, reload, views,
                 loads, instances>>

\* one cursor.execute of the transaction body
LoadExec ==
  /\ lpc = "tx"
  /\ pos <= Len(stmts)
  /\ LET s == stmts[pos]
         r == Exec(s, tx, email_to_account_id)
     IN  IF r.ok
         THEN /\ tx' = r.db
              /\ pos' = pos + 1
              /\ email_to_account_id' =
                   IF s.kind = "account"
                   THEN (s.arg.email :> r.ret) @@ email_to_account_id
                   ELSE email_to_account_id
              /\ wlog' = Append(wlog,
                   [kind |-> s.kind, id |-> r.ret, owner |-> s.owner,
                    parent |-> StmtParent(s, email_to_account_id)])
              /\ stats' = CountStmt(stats, s.kind)
              /\ UNCHANGED <<store, lpc, stmts, pre, outcome, reload, views,
                             loads, instances>>
         ELSE /\ Raise("constraint")
              /\ UNCHANGED stats
  /\ UNCHANGED <<import_id, data_quality_issues, advocate_accounts, clean_data,
                 nextId, transformVars, otherVars>>

\* an exception that no row causes (connection loss, conflict), at any point
\* between BEGIN and the return of commit
LoadFault ==
  /\ lpc = "tx"
  /\ Raise("fault")
  /\ UNCHANGED <<etlVars, transformVars, otherVars>>

\* self.conn.commit()
LoadCommit ==
  /\ lpc = "tx"
  /\ pos > Len(stmts)
  /\ store' = Commit(store, tx)
  /\ lpc' = "committed"
  /\ wlog' = Append(wlog, [kind |-> "commit", id |-> 0, owner |-> 0, parent |-> 0])
  /\ views' = "stale"
  /\ UNCHANGED <<tx, stmts, pos, email_to_account_id, pre, outcome, reload,
                 loads, instances, etlVars, transformVars, otherVars>>

\* a variant without the inner handler: a failed refresh reaches the outer
\* except clause
RefreshViewsPropagates ==
  /\ lpc = "committed"
  /\ \E ok \in BOOLEAN :
       IF ok THEN /\ views' = "fresh"
                  /\ lpc' = "done"
                  /\ outcome' = [result |-> "returned", cause |-> "none"]
                  /\ UNCHANGED <<store, tx>>
       ELSE /\ store' = Rollback(store, tx)
            /\ tx' = store'
            /\ lpc' = "failed"
            /\ outcome' = [result |-> "raised", cause |-> "refresh"]
            /\ UNCHANGED views
  /\ UNCHANGED <<stmts, pos, email_to_account_id, wlog, pre, reload,
                 loads, instances, etlVars, transformVars, otherVars>>

\* SELECT refresh_all_materialized_views(), best effort; then return
RefreshViews ==
  /\ lpc = "committed"
  /\ \E ok \in BOOLEAN : views' = IF ok THEN "fresh" ELSE "stale"
  /\ lpc' = "done"
  /\ outcome' = [result |-> "returned", cause |-> "none"]
  /\ UNCHANGED <<store, tx, stmts, pos, email_to_account_id, wlog, pre, reload,
                 loads, instances, etlVars, transformVars, otherVars>>

\* run has not been called
RunOff ==
  /\ rpc = "off"
  /\ summary = FALSE
  /\ conn = "none"

\* extract_json_files has not been called
ExtractOff ==
  /\ json_files = <<>>
  /\ epc = "off"
  /\ fpos = 1
  /\ valid_files = <<>>
  /\ raw_data = <<>>

InitLoad ==
  /\ store = EmptyDb
  /\ tx = EmptyDb
  /\ pre = EmptyDb
  /\ lpc = "idle"
  /\ clean_data = <<>>
  /\ stmts = <<>>
  /\ pos = 1
  /\ email_to_account_id = EmptyMap
  /\ wlog = <<>>
  /\ outcome = NoOutcome
  /\ reload = FALSE
  /\ views = "fresh"
  /\ import_id = 901
  /\ \E k \in 0..MaxIssues :
       /\ data_quality_issues = Issues(1, k)
       /\ stats = [ZeroStats EXCEPT !.quality_issues = k]
  /\ advocate_accounts = EmptyMap
  /\ loads = 0
  /\ instances = 1
  /\ nextId = 1
  /\ tpc = "off"
  /\ raw_done = <<>>
  /\ resolved = <<>>
  /\ ExtractOff
  /\ RunOff

NextLoad ==
  \/ NewInstance
  \/ LoadBegin
  \/ LoadExec
  \/ LoadFault
  \/ LoadCommit
  \/ RefreshViews

SpecLoad == InitLoad /\ [][NextLoad]_vars


(***************************************************************************)
(* Properties of the Load stage.                                           *)
(***************************************************************************)
Committed == lpc \in {"committed", "done"}

\* entry i is the last entry of the batch with its user identity
LastOfUser(cd, i) ==
  \A j \in (i+1)..Len(cd) : cd[j].user.user_id # cd[i].user.user_id

\* the programs of a batch in the order Load writes them
ProgramsOf(cd) ==
  Flatten([i \in 1..Len(cd) |->
    [j \in 1..Len(cd[i].programs) |-> cd[i].programs[j].program]])

\* no row of t references a parent row that t does not hold
NoDangling(t) ==
  /\ \A r \in t.advocate_users : AccountExists(t, r.account_id)
  /\ \A r \in t.programs : UserExists(t, r.user_id)
  /\ \A r \in t.sales_attribution : ProgramExists(t, r.program_id)
  /\ \A r \in t.tasks : ProgramExists(t, r.program_id)
  /\ \A r \in t.social_analytics : TaskExists(t, r.task_id)
  /\ \A r \in t.data_quality_issues : ImportExists(t, r.import_id)

\* C1: whenever load_to_database raises after BEGIN, whatever the step and
\* the cause, the exception reaches the caller and the committed rows of
\* every table are exactly those committed before the load; no write of the
\* transaction is visible while it runs either.
C1_LoadAtomic ==
  /\ lpc = "tx" => store = pre
  /\ lpc = "failed" => (store = pre /\ outcome.result = "raised")

\* a load that failed on a constraint after writing rows, over a database
\* that already held committed rows
C1_Witness ==
  /\ lpc = "failed"
  /\ outcome.cause = "constraint"
  /\ Len(wlog) >= 3
  /\ pre.advocate_users # {}
  /\ store.advocate_users # {}

\* C2: storage never holds two Account rows with one email; after a
\* successful load each email of the batch has exactly one row, whose identity
\* is the one storage held before the load if it held the email, and every
\* participant of the batch references that row.
C2_Dedup ==
  /\ \A r1, r2 \in store.advocate_accounts : r1.email = r2.email => r1 = r2
  /\ Committed =>
       \A i \in 1..Len(clean_data) :
         LET e == clean_data[i].account.email
             rows == {r \in store.advocate_accounts : r.email = e}
             old == {r \in pre.advocate_accounts : r.email = e}
         IN  /\ Cardinality(rows) = 1
             /\ \A o \in old : \A r \in rows : r.account_id = o.account_id
             /\ LastOfUser(clean_data, i) =>
                  \E u \in store.advocate_users :
                    /\ u.user_id = clean_data[i].user.user_id
                    /\ \A r \in rows : u.account_id = r.account_id

\* a committed load of two participants sharing an email that storage already
\* held under another identity than the batch's locally generated one
C2_Witness ==
  /\ lpc = "done"
  /\ \E i, j \in 1..Len(clean_data) :
       /\ i # j
       /\ clean_data[i].account.email = clean_data[j].account.email
       /\ \E o \in pre.advocate_accounts :
            /\ o.email = clean_data[i].account.email
            /\ o.account_id # clean_data[i].account.account_id
            /\ \E u \in store.advocate_users :
                 u.user_id = clean_data[i].user.user_id
                   /\ u.account_id = o.account_id

\* C3 (as claimed): a second load of the batch the instance has just
\* committed, unless an outside fault interrupts it, succeeds and leaves
\* every table with the rows it had after the first load.
C3_RerunIdempotent ==
  (reload /\ lpc \in {"done", "failed"} /\ outcome.cause # "fault")
    => (lpc = "done" /\ store = pre)

\* C4: after a successful load, each participant identity of the batch has
\* exactly one row, carrying the name and handles of the batch's (last) entry
\* for it, and each program identity has exactly one row, carrying the brand
\* of the batch's (last) program with it.
C4_UpsertUpdates ==
  Committed =>
    /\ \A i \in 1..Len(clean_data) :
         LastOfUser(clean_data, i) =>
           LET u == clean_data[i].user
               rows == {r \in store.advocate_users : r.user_id = u.user_id}
           IN  /\ Cardinality(rows) = 1
               /\ \A r \in rows :
                    /\ r.name = u.name
                    /\ r.instagram_handle = u.instagram_handle
                    /\ r.tiktok_handle = u.tiktok_handle
    /\ LET ps == ProgramsOf(clean_data)
       IN  \A i \in 1..Len(ps) :
             (\A j \in (i+1)..Len(ps) : ps[j].program_id # ps[i].program_id) =>
               LET rows == {r \in store.programs :
                              r.program_id = ps[i].program_id}
               IN  /\ Cardinality(rows) = 1
                   /\ \A r \in rows : r.brand = ps[i].brand

\* a committed load over a participant and a program that storage already
\* held with another name and another brand
C4_Witness ==
  /\ lpc = "done"
  /\ \E i \in 1..Len(clean_data) :
       /\ \E r \in pre.advocate_users :
            /\ r.user_id = clean_data[i].user.user_id
            /\ r.name # clean_data[i].user.name
       /\ \E j \in 1..Len(clean_data[i].programs) :
            \E r \in pre.programs :
              /\ r.program_id = clean_data[i].programs[j].program.program_id
              /\ r.brand # clean_data[i].programs[j].program.brand

EntityKinds == {"account", "user", "program", "sales", "task", "analytics"}

\* C6: in the transaction's sequence of executed statements the run-metadata
\* insert is first; a participant follows the account upsert that returned
\* the identity it references; a program follows its participant, a sales
\* record and a task follow their program, an analytics record follows its
\* task; no entity write follows a quality-issue insert; only the commit
\* follows the completion update; the commit is last; and at every point
\* each row the connection sees references a parent row it also sees.
C6_LoadOrder ==
  /\ \A j \in 1..Len(wlog) :
       LET w == wlog[j]
           Earlier(kind, id) ==
             \E i \in 1..(j-1) : wlog[i].kind = kind /\ wlog[i].id = id
       IN  /\ (w.kind = "import") <=> (j = 1)
           /\ w.kind = "user" => Earlier("account", w.parent)
           /\ w.kind = "program" => Earlier("user", w.owner)
           /\ w.kind \in {"sales", "task"} => Earlier("program", w.owner)
           /\ w.kind = "analytics" => Earlier("task", w.owner)
           /\ w.kind \in EntityKinds =>
                \A i \in 1..(j-1) : wlog[i].kind \notin {"issue", "complete"}
           /\ w.kind = "issue" =>
                \A i \in 1..(j-1) : wlog[i].kind # "complete"
           /\ w.kind = "commit" =>
                /\ j = Len(wlog)
                /\ j > 1
                /\ wlog[j-1].kind = "complete"
  /\ Committed => (wlog # <<>> /\ wlog[Len(wlog)].kind = "commit")
  /\ NoDangling(tx)
  /\ NoDangling(store)

\* a committed load that wrote every kind of row
C6_Witness ==
  /\ lpc = "done"
  /\ \A k \in EntityKinds \cup {"import", "issue", "complete", "commit"} :
       \E j \in 1..Len(wlog) : wlog[j].kind = k

\* entry i of the batch has the identity of a participant storage held
\* before the load and an account_id that no account has, neither before
\* the load nor on the connection at its end
StaleAccount(i) ==
  /\ \E r \in pre.advocate_users : r.user_id = clean_data[i].user.user_id
  /\ \A r \in pre.advocate_accounts \cup tx.advocate_accounts :
       r.account_id # clean_data[i].user.account_id

\* C20 (as claimed): a load of such an entry raises and is rolled back, and
\* the participant row committed before is still there.
C20_StaleAccountRaises ==
  \A i \in 1..Len(clean_data) :
    (lpc \in {"done", "failed"} /\ StaleAccount(i)) =>
      /\ lpc = "failed"
      /\ outcome.result = "raised"
      /\ store = pre
      /\ \E r \in store.advocate_users : r.user_id = clean_data[i].user.user_id

\* C16: the refresh of the views is attempted only once the transaction is
\* committed; whatever its result, that step changes no stored row, and
\* load_to_database returns normally; after a failed refresh every
\* participant and account of the batch is still in storage.
C16_BestEffortRefresh ==
  [][ /\ (views' # views \/ lpc' = "done") => lpc \in {"tx", "committed"}
      /\ (views' = "fresh" /\ views # "fresh") => lpc = "committed"
      /\ lpc = "committed" =>
            /\ lpc' = "done"
            /\ outcome'.result = "returned"
            /\ store' = store
      /\ (lpc' = "done" /\ views' = "stale") =>
            \A i \in 1..Len(clean_data') :
              /\ \E r \in store'.advocate_accounts :
                    r.email = clean_data'[i].account.email
              /\ \E r \in store'.advocate_users :
                    r.user_id = clean_data'[i].user.user_id ]_vars

\* a load of two entries has returned after its refresh failed, and its
\* rows are in storage
C16_Witness ==
  /\ lpc = "done"
  /\ views = "stale"
  /\ outcome.result = "returned"
  /\ Len(clean_data) = 2
  /\ store # pre
  /\ store.advocate_users # {}

(***************************************************************************)
(* Raw JSON values and the text operations the field validators rest on.   *)
(* A raw value is a key that is absent, null, an integer or a string.      *)
(***************************************************************************)
Absent == [k |-> "absent", n |-> 0, s |-> <<>>]
Null == [k |-> "null", n |-> 0, s |-> <<>>]
Num(n) == [k |-> "int", n |-> n, s |-> <<>>]
Txt(s) == [k |-> "str", n |-> 0, s |-> s]

\* LET x == v IN Op(x)
With(v, Op(_)) == Op(v)

\* v is None or v == ''  (an absent key never reaches a validator)
IsNoneOrEmpty(v) == v.k = "null" \/ (v.k = "str" /\ v.s = <<>>)
IsText(v, s) == v.k = "str" /\ v.s = s

DigitChars == <<"0", "1", "2", "3", "4", "5", "6", "7", "8", "9">>
UpperChars == <<"A", "B", "C", "D", "E", "F", "G", "H", "I", "J", "K", "L", "M", "N", "O", "P", "Q", "R", "S", "T", "U", "V", "W", "X", "Y", "Z">>
LowerChars == <<"a", "b", "c", "d", "e", "f", "g", "h", "i", "j", "k", "l", "m", "n", "o", "p", "q", "r", "s", "t", "u", "v", "w", "x", "y", "z">>
Range(f) == {f[i] : i \in DOMAIN f}
Digits == Range(DigitChars)
Letters == Range(UpperChars) \cup Range(LowerChars)
HexChars == Digits \cup {"a", "b", "c", "d", "e", "f", "A", "B", "C", "D", "E", "F"}

IndexIn(f, c) == CHOOSE i \in DOMAIN f : f[i] = c
AllIn(s, S) == \A i \in 1..Len(s) : s[i] \in S

\* str.lower()
LowerChar(c) == IF c \in Range(UpperChars) THEN LowerChars[IndexIn(UpperChars, c)] ELSE c
Lower(s) == [i \in 1..Len(s) |-> LowerChar(s[i])]

\* str.strip(), str.rstrip(), str.lstrip(chars)
RECURSIVE LStrip(_, _)
LStrip(s, cs) == IF s # <<>> /\ Head(s) \in cs THEN LStrip(Tail(s), cs) ELSE s
RECURSIVE RStrip(_, _)
RStrip(s, cs) ==
  IF s # <<>> /\ s[Len(s)] \in cs THEN RStrip(SubSeq(s, 1, Len(s) - 1), cs) ELSE s
Strip(s) == RStrip(LStrip(s, {" "}), {" "})

\* re.sub(r'[,$]', '', v), str.replace('-', '')
Remove(s, cs) == SelectSeq(s, LAMBDA c : c \notin cs)

\* the value of a string of decimal digits
RECURSIVE DigitsVal(_)
DigitsVal(s) ==
  IF s = <<>> THEN 0
  ELSE 10 * DigitsVal(SubSeq(s, 1, Len(s) - 1)) + (IndexIn(DigitChars, s[Len(s)]) - 1)

HexVal(c) ==
  IF c \in Digits THEN IndexIn(DigitChars, c) - 1
  ELSE 9 + IndexIn(<<"a", "b", "c", "d", "e", "f">>, LowerChar(c))

\* int(v) of a string: optional sign and decimal digits, blanks around
\* (ValueError otherwise)
Signed(t) == t # <<>> /\ Head(t) \in {"-", "+"}
Unsigned(t) == IF Signed(t) THEN Tail(t) ELSE t
ParseInt(s) ==
  With(Strip(s), LAMBDA t :
  With(Unsigned(t), LAMBDA d :
    IF d # <<>> /\ AllIn(d, Digits)
    THEN [ok |-> TRUE, v |-> (IF Head(t) = "-" THEN 0 - 1 ELSE 1) * DigitsVal(d)]
    ELSE [ok |-> FALSE, v |-> 0]))

\* float(v) of a string, for whole amounts and "nan" (ValueError otherwise)
ParseFloat(s) ==
  With(ParseInt(s), LAMBDA p :
    IF Lower(Unsigned(Strip(s))) = <<"n", "a", "n">>
    THEN [ok |-> TRUE, nan |-> TRUE, v |-> 0]
    ELSE [ok |-> p.ok, nan |-> FALSE, v |-> p.v])

\* UUID(v) of a string: hyphens dropped, then hex digits only, of the full
\* length (scaled from 32 digits to 2); the identity is their value
IsUuid(s) == With(Remove(s, {"-"}), LAMBDA h : Len(h) = 2 /\ AllIn(h, HexChars))
UuidVal(s) == With(Remove(s, {"-"}), LAMBDA h : 16 * HexVal(h[1]) + HexVal(h[2]))

Max(a, b) == IF a > b THEN a ELSE b

(***************************************************************************)
(* models/raw.py: the field validators.  An Optional[int] field without a  *)
(* validator of its own is parsed by the model library: null and integers  *)
(* pass, a string passes when it reads as an integer, any other string is  *)
(* a validation error that rejects the record.                             *)
(***************************************************************************)
Valid(v) == [ok |-> TRUE, v |-> v]
Invalid == [ok |-> FALSE, v |-> None]

OptionalInt(v) ==
  With(ParseInt(v.s), LAMBDA p :
    CASE v.k \in {"absent", "null"} -> Valid(None)
      [] v.k = "int" -> Valid(Some(v.n))
      [] v.k = "str" -> IF p.ok THEN Valid(Some(p.v)) ELSE Invalid)

\* int(v) of a string, None on ValueError
IntOrNone(s) == With(ParseInt(s), LAMBDA p : IF p.ok THEN Some(p.v) ELSE None)

\* RawSocialAnalytics.clean_likes
clean_likes(v) ==
  IF IsNoneOrEmpty(v) \/ IsText(v, <<"N", "a", "N">>) THEN None
  ELSE IF v.k = "str" THEN IntOrNone(v.s)
  ELSE Some(v.n)

\* RawSocialAnalytics.clean_reach
clean_reach(v) ==
  IF v.k = "null" THEN None
  ELSE IF v.k = "int" THEN Some(Max(0, v.n))
  ELSE None

\* RawSocialAnalytics.clean_impressions
clean_impressions(v) ==
  IF IsNoneOrEmpty(v) \/ IsText(v, <<"N", "a", "N">>) THEN None
  ELSE IF v.k = "str" THEN IntOrNone(v.s)
  ELSE Some(Max(0, v.n))

\* a validator runs on a key that is present; an absent key takes the default
Field(v, cleaned) == IF v.k = "absent" THEN None ELSE cleaned

\* RawSocialAnalytics(**d)
RawSocialAnalytics(d) ==
  With(OptionalInt(d.comments), LAMBDA comments :
  With(OptionalInt(d.shares), LAMBDA shares :
    [ ok |-> comments.ok /\ shares.ok,
      likes |-> Field(d.likes, clean_likes(d.likes)),
      comments |-> comments.v,
      shares |-> shares.v,
      reach |-> Field(d.reach, clean_reach(d.reach)),
      impressions |-> Field(d.impressions, clean_impressions(d.impressions)) ]))

CounterFields == {"likes", "comments", "shares", "reach", "impressions"}
NoCounters == [f \in CounterFields |-> Absent]

\* RawTask.build_analytics: the nested object the validator leaves in values
build_analytics(t) ==
  IF t.analytics.k = "absent" /\ \E f \in CounterFields : t.flat[f].k # "absent"
  THEN [k |-> "obj",
        d |-> [f \in CounterFields |->
                 IF t.flat[f].k = "absent" THEN Null ELSE t.flat[f]]]
  ELSE t.analytics

\* RawTask.clean_task_id, RawProgram.clean_program_id
clean_id(v) == IF v.k = "absent" \/ IsNoneOrEmpty(v) THEN None ELSE Some(v.s)

platform_map(s) ==
  CASE s = <<"t", "i", "k", "t", "o", "k">> -> Some("TikTok")
    [] s = <<"i", "n", "s", "t", "a", "g", "r", "a", "m">> -> Some("Instagram")
    [] s = <<"f", "a", "c", "e", "b", "o", "o", "k">> -> Some("Facebook")
    [] s = <<"y", "o", "u", "t", "u", "b", "e">> -> Some("YouTube")
    [] s = <<"t", "w", "i", "t", "t", "e", "r">> -> Some("Twitter")
    [] s = <<"u", "n", "k", "n", "o", "w", "n">> -> Some("Unknown")
    [] OTHER -> None

\* a variant that compares the platform with the table as it is written
clean_platformCaseSensitive(v) ==
  IF v.k \in {"absent", "null", "int"} THEN None
  ELSE platform_map(Strip(v.s))

\* RawTask.clean_platform
clean_platform(v) ==
  IF v.k \in {"absent", "null", "int"} THEN None
  ELSE platform_map(Lower(Strip(v.s)))

\* RawTask(**t): the flat counters are fields of the task too
RawTask(t) ==
  With(build_analytics(t), LAMBDA a :
  With(RawSocialAnalytics(a.d), LAMBDA analytics :
    [ ok |-> /\ a.k = "obj" => analytics.ok
             /\ t.task_id.k # "int"
             /\ \A f \in {"comments", "shares", "reach"} : OptionalInt(t.flat[f]).ok,
      task_id |-> clean_id(t.task_id),
      platform |-> clean_platform(t.platform),
      analytics |-> IF a.k = "obj" THEN Some(analytics) ELSE None ]))

\* a variant that keeps a numeric brand as its text
clean_brandKeepsNumbers(v) ==
  IF v.k = "absent" \/ IsNoneOrEmpty(v) THEN None
  ELSE IF v.k = "int" THEN Some(<<ToString(v.n)>>)
  ELSE Some(Strip(v.s))

\* RawProgram.clean_brand
clean_brand(v) ==
  IF v.k = "absent" \/ IsNoneOrEmpty(v) \/ v.k = "int" THEN None
  ELSE Some(Strip(v.s))

\* RawProgram.clean_sales: the amount as a float, or None
clean_sales(v) ==
  IF v.k = "absent" \/ IsNoneOrEmpty(v) \/ IsText(v, <<"n", "o", "-", "d", "a", "t", "a">>) THEN None
  ELSE IF v.k = "int" THEN Some([nan |-> FALSE, v |-> v.n])
  ELSE With(ParseFloat(Remove(v.s, {",", "$"})), LAMBDA p :
         IF p.ok THEN Some([nan |-> p.nan, v |-> p.v]) ELSE None)

\* RawProgram(**p)
RawProgram(p) ==
  With([i \in 1..Len(p.tasks_completed) |-> RawTask(p.tasks_completed[i])], LAMBDA ts :
    [ ok |-> p.program_id.k # "int" /\ \A i \in 1..Len(ts) : ts[i].ok,
      program_id |-> clean_id(p.program_id),
      brand |-> clean_brand(p.brand),
      sales_attributed |-> clean_sales(p.total_sales_attributed),
      tasks |-> ts ])

\* RawAdvocateUser.clean_user_id
clean_user_id(v) ==
  IF v.k = "absent" \/ IsNoneOrEmpty(v) THEN None
  ELSE IF v.k = "str" /\ IsUuid(v.s) THEN Some(v.s)
  ELSE None

\* RawAdvocateUser.clean_name (names are absent, null or text)
clean_name(v) ==
  IF v.k = "absent" \/ IsNoneOrEmpty(v) \/ IsText(v, <<"?", "?", "?">>) THEN None
  ELSE Some(Strip(v.s))

\* ^[A-Za-z0-9._%+-]+@[A-Za-z0-9.-]+\.[A-Za-z]{2,}$
EmailPattern(s) ==
  \E a, d \in 1..Len(s) :
    /\ 1 < a /\ a + 1 < d /\ d + 2 <= Len(s)
    /\ s[a] = "@" /\ s[d] = "."
    /\ AllIn(SubSeq(s, 1, a - 1), Letters \cup Digits \cup {".", "_", "%", "+", "-"})
    /\ AllIn(SubSeq(s, a + 1, d - 1), Letters \cup Digits \cup {".", "-"})
    /\ AllIn(SubSeq(s, d + 1, Len(s)), Letters)

\* RawAdvocateUser.clean_email
clean_email(v) ==
  IF v.k = "absent" \/ IsNoneOrEmpty(v) \/ IsText(v, <<"i", "n", "v", "a", "l", "i", "d", "-", "e", "m", "a", "i", "l">>) THEN None
  ELSE IF v.k # "str" \/ "@" \notin Range(v.s) THEN None
  ELSE IF EmailPattern(v.s) THEN Some(Lower(v.s))
  ELSE None

\* strip, drop leading '<<"'", ",", " ", "m", "a", "t", "c", "h", " ", "^", "[", "A", "-", "Z", "a", "-", "z", "0", "-", "9", ".", "_", "]", "+", "$", ",", " ", "p", "u", "t", " ", "o", "n", "e", " ", "'">>' in front
clean_handle(s) ==
  With(LStrip(Strip(s), {"@"}), LAMBDA h :
    IF h # <<>> /\ AllIn(h, Letters \cup Digits \cup {".", "_"})
    THEN Some(<<"@">> \o h) ELSE None)

\* RawAdvocateUser.clean_instagram (handles are absent, null or text)
clean_instagram(v) ==
  IF v.k = "absent" \/ IsNoneOrEmpty(v) THEN None ELSE clean_handle(v.s)

\* RawAdvocateUser.clean_tiktok
clean_tiktok(v) ==
  IF v.k = "absent" \/ IsNoneOrEmpty(v) \/ v.k # "str" THEN None ELSE clean_handle(v.s)

\* RawAdvocateUser(**r)
RawAdvocateUser(r) ==
  With([i \in 1..Len(r.advocacy_programs) |-> RawProgram(r.advocacy_programs[i])],
       LAMBDA ps :
    [ ok |-> \A i \in 1..Len(ps) : ps[i].ok,
      user_id |-> clean_user_id(r.user_id),
      name |-> clean_name(r.name),
      email |-> clean_email(r.email),
      instagram_handle |-> clean_instagram(r.instagram_handle),
      tiktok_handle |-> clean_tiktok(r.tiktok_handle),
      advocacy_programs |-> ps ])

(***************************************************************************)
(* models/clean.py: the validators of the clean models.                    *)
(***************************************************************************)
\* a variant that lets negative counters through
validate_non_negativeKeeps(v) == v

\* CleanSocialAnalytics.validate_non_negative
validate_non_negative(v) == IF v # None /\ v[1] < 0 THEN Some(0) ELSE v

\* CleanSocialAnalytics(task_id=..., likes=..., ...); measured_at defaults to
\* the time of construction
CleanSocialAnalytics(id, task_id, a, now) ==
  [ analytics_id |-> id, task_id |-> task_id,
    likes |-> validate_non_negative(a.likes),
    comments |-> validate_non_negative(a.comments),
    shares |-> validate_non_negative(a.shares),
    reach |-> validate_non_negative(a.reach),
    impressions |-> validate_non_negative(a.impressions),
    measured_at |-> now ]

\* a variant that rejects negative amounts only
validate_positive_amountAcceptsZero(v) == IF v < 0 THEN Invalid ELSE Valid(v)

\* CleanSalesAttribution.validate_positive_amount: ValueError when v <= 0
validate_positive_amount(v) == IF v <= 0 THEN Invalid ELSE Valid(v)

\* CleanSalesAttribution(program_id=..., amount=Decimal(str(x))); a Decimal
\* that is not a number does not pass the field either
CleanSalesAttribution(id, program_id, x) ==
  With(IF x.nan THEN Invalid ELSE validate_positive_amount(x.v), LAMBDA amount :
    [ ok |-> amount.ok,
      v |-> [attribution_id |-> id, program_id |-> program_id, amount |-> amount.v] ])

(***************************************************************************)
(* etl/pipeline.py: Transform.  The instance state an operation changes    *)
(* is threaded through it as c: the issue list, the account cache, the     *)
(* counters and the next identity uuid4() hands out.                       *)
(***************************************************************************)
Ctx ==
  [ issues |-> data_quality_issues, accounts |-> advocate_accounts,
    stats |-> stats, next |-> nextId ]

Drawn(c) == [c EXCEPT !.next = @ + 1]

\* AdvocacyETL.log_quality_issue
log_quality_issue(c, severity, issue_type, record_id, field, value) ==
  [c EXCEPT
     !.issues = Append(@, [ issue_id |-> c.next, import_id |-> import_id,
                            severity |-> severity, issue_type |-> issue_type,
                            record_id |-> record_id, field |-> field,
                            value |-> value ]),
     !.stats.quality_issues = @ + 1,
     !.next = @ + 1]

\* if cond: self.log_quality_issue(...)
LogIf(cond, c, severity, issue_type, record_id, field, value) ==
  IF cond THEN log_quality_issue(c, severity, issue_type, record_id, field, value)
  ELSE c

\* CleanAdvocateAccount(email=...) entered in the cache
NewAccount(c, email) ==
  [ c |-> [c EXCEPT !.accounts = (email :> [account_id |-> c.next, email |-> email,
                                            metadata |-> {}]) @@ c.accounts,
                    !.stats.accounts_created = @ + 1,
                    !.next = @ + 1],
    account |-> Some([account_id |-> c.next, email |-> email, metadata |-> {}]) ]

\* a variant that keys the cache by the email as it is given
get_or_create_advocate_accountAsGiven(c, email) ==
  IF email = None \/ email = Some(<<>>) THEN [c |-> c, account |-> None]
  ELSE With(email[1], LAMBDA email_lower :
         IF email_lower \in DOMAIN c.accounts
         THEN [c |-> c, account |-> Some(c.accounts[email_lower])]
         ELSE NewAccount(c, email_lower))

\* AdvocacyETL.get_or_create_advocate_account
get_or_create_advocate_account(c, email) ==
  IF email = None \/ email = Some(<<>>) THEN [c |-> c, account |-> None]
  ELSE With(Lower(email[1]), LAMBDA email_lower :
         IF email_lower \in DOMAIN c.accounts
         THEN [c |-> c, account |-> Some(c.accounts[email_lower])]
         ELSE NewAccount(c, email_lower))

\* a variant whose placeholder email is the same for every participant
PlaceholderAccountSameEmail(c, raw_user) ==
  With(NewAccount(Drawn(c), <<"noemail_", "", "@placeholder.local">>),
       LAMBDA made :
    [ c |-> log_quality_issue(made.c, "high", "missing_email",
               IF raw_user.user_id = None THEN Some("unknown") ELSE raw_user.user_id,
               Some("email"), None),
      account |-> made.account ])

\* the placeholder account of a participant without a valid email
PlaceholderAccount(c, raw_user) ==
  With(NewAccount(Drawn(c), <<"noemail_", ToString(c.next), "@placeholder.local">>),
       LAMBDA made :
    [ c |-> log_quality_issue(made.c, "high", "missing_email",
               IF raw_user.user_id = None THEN Some("unknown") ELSE raw_user.user_id,
               Some("email"), None),
      account |-> made.account ])

\* UUID(x) if x else uuid4(): whether it raises, the identity, the draw
IdOf(c, x) ==
  [ ok |-> x = None \/ IsUuid(x[1]),
    id |-> IF x = None THEN c.next ELSE IF IsUuid(x[1]) THEN UuidVal(x[1]) ELSE 0,
    c |-> IF x = None THEN Drawn(c) ELSE c ]

Raised(c) == [ok |-> FALSE, c |-> c, out |-> <<>>]

\* a variant whose analytics reference the program instead of the task
TaskOutAnalyticsOfProgram(tid, program_id, raw_task) ==
  [ c |-> IF raw_task.analytics = None THEN tid.c ELSE Drawn(tid.c),
    out |-> [ task |-> [ task_id |-> tid.id, program_id |-> program_id,
                         platform |-> IF raw_task.platform = None THEN "Unknown"
                                      ELSE raw_task.platform[1] ],
              analytics |->
                IF raw_task.analytics = None THEN None
                ELSE Some(CleanSocialAnalytics(tid.c.next, program_id,
                                               raw_task.analytics[1], tid.c.next)) ] ]

\* CleanTask(...) and, if raw_task.analytics, CleanSocialAnalytics(...)
TaskOut(tid, program_id, raw_task) ==
  [ c |-> IF raw_task.analytics = None THEN tid.c ELSE Drawn(tid.c),
    out |-> [ task |-> [ task_id |-> tid.id, program_id |-> program_id,
                         platform |-> IF raw_task.platform = None THEN "Unknown"
                                      ELSE raw_task.platform[1] ],
              analytics |->
                IF raw_task.analytics = None THEN None
                ELSE Some(CleanSocialAnalytics(tid.c.next, tid.id,
                                               raw_task.analytics[1], tid.c.next)) ] ]

\* the task loop of one program
RECURSIVE TransformTasks(_, _, _)
TransformTasks(c, program_id, tasks) ==
  IF tasks = <<>> THEN [ok |-> TRUE, c |-> c, out |-> <<>>]
  ELSE
    With(Head(tasks), LAMBDA raw_task :
    With(LogIf(raw_task.platform = None, c, "high", "invalid_platform",
               Some(program_id), Some("platform"), Some("null or invalid")),
         LAMBDA c1 :
    With(IdOf(c1, raw_task.task_id), LAMBDA tid :
    With(TaskOut(tid, program_id, raw_task), LAMBDA made :
    With(TransformTasks(made.c, program_id, Tail(tasks)), LAMBDA rest :
      IF ~tid.ok THEN Raised(c1)
      ELSE [ok |-> rest.ok, c |-> rest.c, out |-> <<made.out>> \o rest.out])))))

\* the sales step of one program
TransformSales(c, program_id, raw_program) ==
  IF raw_program.sales_attributed = None THEN [c |-> c, sales |-> None]
  ELSE
    With(CleanSalesAttribution(c.next, program_id, raw_program.sales_attributed[1]),
         LAMBDA made :
      IF made.ok THEN [c |-> Drawn(c), sales |-> Some(made.v)]
      ELSE [ c |-> log_quality_issue(Drawn(c), "medium", "invalid_sales_amount",
                      Some(program_id), Some("sales_attributed"),
                      Some([raw_value |-> raw_program.sales_attributed[1]])),
             sales |-> None ])

\* the program loop of one participant
RECURSIVE TransformPrograms(_, _, _)
TransformPrograms(c, user_id, programs) ==
  IF programs = <<>> THEN [ok |-> TRUE, c |-> c, out |-> <<>>]
  ELSE
    With(Head(programs), LAMBDA raw_program :
    With(LogIf(raw_program.brand = None, c, "medium", "missing_brand",
               Some(user_id), Some("brand"), None),
         LAMBDA c1 :
    With(IdOf(c1, raw_program.program_id), LAMBDA pid :
    With(TransformSales(pid.c, pid.id, raw_program), LAMBDA sold :
    With(TransformTasks(sold.c, pid.id, raw_program.tasks), LAMBDA done :
    With(TransformPrograms(done.c, user_id, Tail(programs)), LAMBDA rest :
      IF ~pid.ok THEN Raised(c1)
      ELSE IF ~done.ok THEN Raised(done.c)
      ELSE [ ok |-> rest.ok, c |-> rest.c,
             out |-> <<[ program |-> [ program_id |-> pid.id, user_id |-> user_id,
                                       brand |-> IF raw_program.brand = None
                                                 THEN <<"U", "n", "k", "n", "o", "w", "n">>
                                                 ELSE raw_program.brand[1] ],
                         tasks |-> done.out, sales |-> sold.sales ]>>
                       \o rest.out ]))))))

\* the issues logged for the participant itself
UserIssues(c, raw_user, user_id) ==
  LogIf(raw_user.email = None,
        LogIf(raw_user.name = None,
              LogIf(raw_user.user_id = None, c, "medium", "missing_user_id",
                    Some(user_id), Some("user_id"), None),
              "low", "missing_name", Some(user_id), Some("name"), None),
        "medium", "invalid_email", Some(user_id), Some("email"), None)

\* the body of the try block of transform_user_data, for one raw record
TransformUser(c, raw_json) ==
  With(RawAdvocateUser(raw_json), LAMBDA raw_user :
  With(get_or_create_advocate_account(c, raw_user.email), LAMBDA got :
  With(IF got.account = None THEN PlaceholderAccount(got.c, raw_user) ELSE got,
       LAMBDA held :
  With(IdOf(held.c, raw_user.user_id), LAMBDA uid :
  With(TransformPrograms(UserIssues(uid.c, raw_user, uid.id), uid.id,
                         raw_user.advocacy_programs),
       LAMBDA program_data :
    IF ~raw_user.ok THEN Raised(c)
    ELSE IF ~program_data.ok THEN Raised(program_data.c)
    ELSE [ ok |-> TRUE, c |-> program_data.c,
           out |-> <<[ user |-> [ user_id |-> uid.id,
                                  account_id |-> held.account[1].account_id,
                                  name |-> raw_user.name,
                                  instagram_handle |-> raw_user.instagram_handle,
                                  tiktok_handle |-> raw_user.tiktok_handle ],
                       programs |-> program_data.out,
                       account |-> held.account[1] ]>> ])))))

\* a variant without the handler: the exception leaves transform_user_data
OnRecordErrorPropagates(c, raw_json) == [c |-> c, raised |-> TRUE]

\* except Exception: log the record as a critical issue and continue
OnRecordError(c, raw_json) ==
  [ c |-> log_quality_issue(c, "critical", "transformation_error", None, None,
                            Some([raw_data |-> raw_json])),
    raised |-> FALSE ]

(***************************************************************************)
(* Raw input of Transform: records as the JSON files hold them.            *)
(***************************************************************************)
NoAnalytics == [k |-> "absent", d |-> NoCounters]
NullAnalytics == [k |-> "null", d |-> NoCounters]
Nested(d) == [k |-> "obj", d |-> d]

Task(task_id, platform, analytics, flat) ==
  [task_id |-> task_id, platform |-> platform, analytics |-> analytics, flat |-> flat]
Program(program_id, brand, sales, tasks) ==
  [ program_id |-> program_id, brand |-> brand, total_sales_attributed |-> sales,
    tasks_completed |-> tasks ]
Record(user_id, name, email, tiktok_handle, programs) ==
  [ user_id |-> user_id, name |-> name, email |-> email,
    instagram_handle |-> Absent, tiktok_handle |-> tiktok_handle,
    advocacy_programs |-> programs ]

\* one counter given in a nested analytics object / flat on the task
NestedTask(f, v) ==
  Task(Txt(<<"2", "a">>), Txt(<<"t", "i", "k", "t", "o", "k">>), Nested([NoCounters EXCEPT ![f] = v]), NoCounters)
FlatTask(f, v) ==
  Task(Txt(<<"2", "a">>), Txt(<<"t", "i", "k", "t", "o", "k">>), NoAnalytics, [NoCounters EXCEPT ![f] = v])
PlainTask == Task(Txt(<<"2", "a">>), Txt(<<"t", "i", "k", "t", "o", "k">>), NoAnalytics, NoCounters)

PlatformValues ==
  { Absent, Null, Num(42), Txt(<<>>), Txt(<<"m", "y", "s", "p", "a", "c", "e">>), Txt(<<"t", "i", "k", "t", "o", "k">>), Txt(<<" ", "T", "i", "k", "T", "o", "k", " ">>),
    Txt(<<"I", "N", "S", "T", "A", "G", "R", "A", "M">>), Txt(<<"U", "n", "k", "n", "o", "w", "n">>), Txt(<<"Y", "o", "u", "T", "u", "b", "e">>), Txt(<<"T", "w", "i", "t", "t", "e", "r">>), Txt(<<"f", "a", "c", "e", "b", "o", "o", "k">>) }
PlatformTask(v) == Task(Txt(<<"2", "a">>), v, NoAnalytics, NoCounters)

CounterValues ==
  { Null, Num(3), Num(0 - 2), Txt(<<"N", "a", "N">>), Txt(<<>>), Txt(<<"1", "2">>), Txt(<<"-", "4">>), Txt(<<"x">>) }
FlatValues == { Num(3), Num(0 - 2), Txt(<<"N", "a", "N">>), Txt(<<"1", "2">>) }

\* "likes": 10, "comments": "NaN", flat and nested
ScenarioCounters == [NoCounters EXCEPT !.likes = Num(10), !.comments = Txt(<<"N", "a", "N">>)]

TaskSamples ==
  {NestedTask(f, v) : f \in CounterFields, v \in CounterValues}
    \cup {FlatTask(f, v) : f \in CounterFields, v \in FlatValues}
    \cup {PlatformTask(v) : v \in PlatformValues}
    \cup { PlainTask,
           Task(Absent, Txt(<<"t", "i", "k", "t", "o", "k">>), NoAnalytics, ScenarioCounters),
           Task(Absent, Txt(<<"t", "i", "k", "t", "o", "k">>), Nested(ScenarioCounters), NoCounters),
           Task(Null, Num(42), NoAnalytics, NoCounters),
           Task(Txt(<<>>), Txt(<<" ", "T", "i", "k", "T", "o", "k", " ">>), NoAnalytics, NoCounters),
           Task(Txt(<<"2", "b">>), Txt(<<"m", "y", "s", "p", "a", "c", "e">>), NoAnalytics, NoCounters),
           Task(Txt(<<"z", "z">>), Txt(<<"t", "i", "k", "t", "o", "k">>), NoAnalytics, NoCounters),
           Task(Txt(<<"2", "c">>), Txt(<<"i", "n", "s", "t", "a", "g", "r", "a", "m">>), NullAnalytics,
                [NoCounters EXCEPT !.likes = Num(5)]) }

SalesValues ==
  { Null, Num(250), Num(0), Num(0 - 5), Txt(<<"n", "o", "-", "d", "a", "t", "a">>), Txt(<<>>), Txt(<<"$", "1", ",", "2", "5", "0">>),
    Txt(<<"a", "b", "c">>), Txt(<<"n", "a", "n">>), Txt(<<"-", "3">>), Txt(<<"0">>) }

SalesProgram(s) == Program(Txt(<<"1", "a">>), Txt(<<"A", "c", "m", "e">>), s, <<PlainTask>>)

BrandValues ==
  {Absent, Null, Num(12345), Txt(<<>>), Txt(<<" ", "A", "c", "m", "e", " ">>), Txt(<<" ">>)}

BrandProgram(b) == Program(Txt(<<"1", "b">>), b, Absent, <<>>)

TaskProgram(t) == Program(Txt(<<"1", "a">>), Txt(<<"A", "c", "m", "e">>), Absent, <<t>>)

ProgramSamples ==
  {TaskProgram(t) : t \in TaskSamples}
    \cup {SalesProgram(s) : s \in SalesValues}
    \cup {BrandProgram(b) : b \in BrandValues}
    \cup {Program(p, Txt(<<"A", "c", "m", "e">>), Num(250), <<PlainTask>>) :
            p \in {Null, Txt(<<>>), Txt(<<"z", "z">>), Txt(<<"1", "A">>)}}

OneProgram(p) == Record(Txt(<<"0", "a">>), Txt(<<"A", "n", "n">>), Txt(<<"a", "n", "n", "@", "x", ".", "i", "o">>), Txt(<<"@", "a", "n", "n">>), <<p>>)

\* one record whose only program / only task carries the identifier p
IdProgram(p) == OneProgram(Program(p, Txt(<<"A", "c", "m", "e">>), Num(250), <<PlainTask>>))
IdTask(p) == OneProgram(TaskProgram(Task(p, Txt(<<"t", "i", "k", "t", "o", "k">>), NoAnalytics, NoCounters)))
IdUser(p) == Record(p, Txt(<<"A", "n", "n">>), Txt(<<"a", "n", "n", "@", "x", ".", "i", "o">>), Absent, <<>>)

\* records every batch may hold any number of times
CoreRecords ==
  { Record(Txt(<<"0", "a">>), Txt(<<"A", "n", "n">>), Txt(<<"A", "n", "n", "@", "X", ".", "i", "o">>), Txt(<<"@", "a", "n", "n">>),
           <<Program(Txt(<<"1", "a">>), Txt(<<"A", "c", "m", "e">>), Num(250),
                     <<FlatTask("likes", Num(10))>>)>>),
    Record(Txt(<<"0", "b">>), Txt(<<" ", "B", "o", "b", " ">>), Txt(<<"a", "n", "n", "@", "x", ".", "i", "o">>), Absent, <<>>),
    Record(Txt(<<"i", "n", "v", "a", "l", "i", "d", "-", "u", "u", "i", "d">>), Txt(<<"?", "?", "?">>), Txt(<<"i", "n", "v", "a", "l", "i", "d", "-", "e", "m", "a", "i", "l">>), Txt(<<"@", "t", "e", "s", "t">>),
           <<Program(Txt(<<>>), Num(12345), Txt(<<"n", "o", "-", "d", "a", "t", "a">>),
                     <<Task(Null, Num(999),
                            Nested([NoCounters EXCEPT !.likes = Txt(<<"N", "a", "N">>),
                                                      !.comments = Null,
                                                      !.reach = Num(0 - 1000)]),
                            NoCounters)>>)>>),
    Record(Txt(<<"0", "c">>), Txt(<<"C", "y">>), Txt(<<"c", "y", "@", "x", ".", "i", "o">>), Absent,
           <<Program(Txt(<<"1", "c">>), Null, Num(0), <<>>),
             Program(Txt(<<"z", "z">>), Null, Absent, <<>>)>>),
    Record(Absent, Txt(<<"J", "a", "n", "e">>), Txt(<<"J", "a", "n", "e", "@", "E", "x", "a", "m", "p", "l", "e", ".", "c", "o", "m">>), Absent,
           <<Program(Absent, Txt(<<"A", "c", "m", "e">>), Num(250),
                     <<Task(Absent, Txt(<<"t", "i", "k", "t", "o", "k">>), NoAnalytics, ScenarioCounters)>>)>>) }

RawRecords ==
  CoreRecords
    \cup {OneProgram(p) : p \in ProgramSamples}
    \cup { Record(Null, Null, Null, Null, <<>>),
           Record(Txt(<<"0", "A">>), Txt(<<>>), Txt(<<"a", "n", "n", "@", "x">>), Txt(<<"a", " ", "b">>), <<>>),
           Record(Txt(<<"0", "-", "a">>), Txt(<<"A", "n", "n">>), Txt(<<"a", "n", "n", ".", "x", ".", "i", "o">>), Num(7), <<>>),
           Record(Txt(<<"0", "a">>), Txt(<<"A", "n", "n">>), Txt(<<"a", "n", "n", "@", "x", ".", "i", "o">>), Absent,
                  <<SalesProgram(Num(0 - 5)),
                    Program(Txt(<<"1", "b">>), Txt(<<"A", "c", "m", "e">>), Num(250),
                            <<PlainTask, NestedTask("likes", Num(0 - 2))>>)>>) }
    \cup UNION {{IdUser(p), IdProgram(p), IdTask(p)} :
                  p \in {Txt(<<>>), Txt(<<"z", "z">>)}}

\* the records the next position of a batch draws from: any batch of core
\* records with at most one record from outside them
RawInputs(done) ==
  IF \E i \in 1..Len(done) : done[i] \notin CoreRecords THEN CoreRecords
  ELSE RawRecords

(***************************************************************************)
(* Transform as a state machine: one step per raw record.                  *)
(***************************************************************************)
\* one turn of the for loop of transform_user_data
TransformTurn(raw_json) ==
  \E done \in {TransformUser(Ctx, raw_json)} :
  \E handled \in {OnRecordError(done.c, raw_json)} :
  \E c \in {IF done.ok THEN done.c ELSE handled.c} :
    /\ clean_data' = clean_data \o done.out
    /\ tpc' = IF ~done.ok /\ handled.raised THEN "raised" ELSE "run"
    /\ data_quality_issues' = c.issues
    /\ advocate_accounts' = c.accounts
    /\ stats' = c.stats
    /\ nextId' = c.next
    /\ raw_done' = Append(raw_done, raw_json)

TransformRecord ==
  /\ tpc = "run"
  /\ Len(raw_done) < MaxRecords
  /\ \E raw_json \in RawInputs(raw_done) : TransformTurn(raw_json)
  /\ UNCHANGED <<loadVars, import_id, otherVars>>

\* the loop is through the batch: return clean_data
TransformReturn ==
  /\ tpc = "run"
  /\ tpc' = "done"
  /\ UNCHANGED <<loadVars, etlVars, raw_done, otherVars>>

\* a new AdvocacyETL whose transform_user_data has just been called
InitTransform ==
  /\ store = EmptyDb
  /\ tx = EmptyDb
  /\ pre = EmptyDb
  /\ lpc = "idle"
  /\ stmts = <<>>
  /\ pos = 1
  /\ email_to_account_id = EmptyMap
  /\ wlog = <<>>
  /\ outcome = NoOutcome
  /\ reload = FALSE
  /\ views = "fresh"
  /\ loads = 0
  /\ instances = 1
  /\ import_id = 901
  /\ data_quality_issues = <<>>
  /\ advocate_accounts = EmptyMap
  /\ stats = ZeroStats
  /\ nextId = 1001
  /\ clean_data = <<>>
  /\ tpc = "run"
  /\ raw_done = <<>>
  /\ resolved = <<>>
  /\ ExtractOff
  /\ RunOff

NextTransform == TransformRecord \/ TransformReturn

SpecTransform == InitTransform /\ [][NextTransform]_vars

(***************************************************************************)
(* The account cache of one instance: get_or_create_advocate_account is    *)
(* called by the caller of the instance with any email, before, between    *)
(* and after the records transform_user_data works through.                *)
(***************************************************************************)
ResolveEmails ==
  { None, Some(<<>>), Some(<<"A", "n", "n", "@", "X", ".", "i", "o">>), Some(<<"a", "n", "n", "@", "x", ".", "i", "o">>), Some(<<"A", "N", "N", "@", "x", ".", "i", "o">>),
    Some(<<"c", "y", "@", "x", ".", "i", "o">>), Some(<<"B", "o", "@", "x", ".", "i", "o">>) }

\* account = etl.get_or_create_advocate_account(email)
ResolveAccount ==
  /\ Len(resolved) < MaxResolutions
  /\ \E email \in ResolveEmails :
       \E got \in {get_or_create_advocate_account(Ctx, email)} :
         /\ advocate_accounts' = got.c.accounts
         /\ stats' = got.c.stats
         /\ nextId' = got.c.next
         /\ resolved' = Append(resolved, [email |-> email, account |-> got.account])
  /\ UNCHANGED <<loadVars, import_id, data_quality_issues, clean_data, transformVars,
                 extractVars, runVars>>

\* one turn of the loop of transform_user_data on a record of the core set
TransformCore ==
  /\ tpc = "run"
  /\ Len(raw_done) < MaxRecords
  /\ \E raw_json \in CoreRecords : TransformTurn(raw_json)
  /\ UNCHANGED <<loadVars, import_id, otherVars>>

NextAccounts == ResolveAccount \/ TransformCore

SpecAccounts == InitTransform /\ [][NextAccounts]_vars

(***************************************************************************)
(* Properties of Transform.                                                *)
(***************************************************************************)
NewCtx == [issues |-> <<>>, accounts |-> EmptyMap, stats |-> ZeroStats, next |-> 1001]
IssuesOfType(ty) == SelectSeq(data_quality_issues, LAMBDA i : i.issue_type = ty)
TransformationErrors == IssuesOfType("transformation_error")
FailingRecords == SelectSeq(raw_done, LAMBDA r : ~TransformUser(NewCtx, r).ok)
ProgramsOut == UNION {Range(e.programs) : e \in Range(clean_data)}
AnalyticsOut ==
  UNION {{t.analytics[1] : t \in {x \in Range(p.tasks) : x.analytics # None}} :
           p \in ProgramsOut}
SalesOut == {p.sales[1] : p \in {x \in ProgramsOut : x.sales # None}}

\* C5: transform_user_data never raises; every consumed raw record has given
\* either one output tuple or one critical "transformation_error" issue that
\* carries its raw payload, so output tuples plus such issues count the input;
\* the records that fail are exactly those that fail on their own, whatever
\* else the batch holds.
C5_RecordIsolation ==
  /\ tpc # "raised"
  /\ Len(clean_data) + Len(TransformationErrors) = Len(raw_done)
  /\ Len(TransformationErrors) = Len(FailingRecords)
  /\ \A i \in 1..Len(TransformationErrors) :
       /\ TransformationErrors[i].severity = "critical"
       /\ TransformationErrors[i].value = Some([raw_data |-> FailingRecords[i]])

\* a batch whose first record failed and whose second record was transformed
C5_Witness ==
  /\ tpc = "done"
  /\ Len(raw_done) = 2
  /\ Len(clean_data) = 1
  /\ Len(TransformationErrors) = 1
  /\ TransformationErrors[1].value = Some([raw_data |-> raw_done[1]])
  /\ TransformUser(NewCtx, raw_done[2]).ok

\* C7: in every Analytics record of the output each of likes, comments,
\* shares, reach and impressions is absent or >= 0.
C7_NonNegative ==
  \A a \in AnalyticsOut : \A f \in CounterFields : a[f] = None \/ a[f][1] >= 0

\* a raw negative likes count has come out as zero
C7_Witness ==
  /\ raw_done = <<OneProgram(TaskProgram(NestedTask("likes", Num(0 - 2))))>>
  /\ \E a \in AnalyticsOut : a.likes = Some(0)

\* C8: every SalesAttribution of the output has amount > 0; constructing one
\* with an amount <= 0 fails, and a program whose raw amount is zero or
\* negative comes out without a SalesAttribution rather than a clamped one.
C8_PositiveAmount ==
  /\ \A s \in SalesOut : s.amount > 0
  /\ \A n \in (0 - 5)..0 : ~CleanSalesAttribution(1, 1, [nan |-> FALSE, v |-> n]).ok
  /\ \A v \in {Num(0), Num(0 - 5), Txt(<<"-", "3">>), Txt(<<"0">>)} :
       raw_done = <<OneProgram(SalesProgram(v))>>
         => \A p \in ProgramsOut : p.sales = None

\* a program with raw amount 0 has come out without sales, next to one with 250
C8_Witness ==
  /\ \E i \in 1..Len(raw_done) : raw_done[i] = OneProgram(SalesProgram(Num(0)))
  /\ \E p \in ProgramsOut : p.sales = None
  /\ \E s \in SalesOut : s.amount = 250
  /\ Len(clean_data) = Len(raw_done)

\* the amounts the claim calls invalid: non-positive, or not a number
InvalidSales == {Num(0), Num(0 - 5), Txt(<<"-", "3">>), Txt(<<"0">>), Txt(<<"a", "b", "c">>)}

\* C9: a program whose raw sales amount is non-positive or cannot be parsed
\* comes out with its tasks and without a SalesAttribution, and exactly one
\* medium "invalid_sales_amount" issue with the value is logged.
C9_InvalidSalesLogged ==
  \A v \in InvalidSales :
    raw_done = <<OneProgram(SalesProgram(v))>>
      => /\ Len(clean_data) = 1
         /\ Len(clean_data[1].programs) = 1
         /\ clean_data[1].programs[1].sales = None
         /\ Len(clean_data[1].programs[1].tasks) = 1
         /\ Len(IssuesOfType("invalid_sales_amount")) = 1
         /\ IssuesOfType("invalid_sales_amount")[1].severity = "medium"
         /\ IssuesOfType("invalid_sales_amount")[1].value # None

\* what the claim says a counter value becomes
Normalized(v) ==
  CASE v.k = "null" \/ v = Txt(<<"N", "a", "N">>) \/ v = Txt(<<>>) -> None
    [] v.k = "int" -> Some(Max(0, v.n))
    [] OTHER -> Some(Max(0, ParseInt(v.s).v))

FirstAnalytics == clean_data[1].programs[1].tasks[1].analytics

\* C10: for each of the five counters, nested or flat, "NaN" and "" become
\* absent, a numeric string is parsed, a negative value is floored to zero,
\* and the record is not rejected; likes=10 with comments="NaN" gives
\* Analytics with likes 10 and comments absent.
C10_CountersUniform ==
  /\ \A f \in CounterFields : \A v \in CounterValues \ {Txt(<<"x">>)} :
       \A t \in {NestedTask(f, v)} \cup {FlatTask(f, w) : w \in FlatValues \cap {v}} :
         raw_done = <<OneProgram(TaskProgram(t))>>
           => /\ Len(clean_data) = 1
              /\ FirstAnalytics # None
              /\ FirstAnalytics[1][f] = Normalized(v)
  /\ \A t \in {Task(Absent, Txt(<<"t", "i", "k", "t", "o", "k">>), NoAnalytics, ScenarioCounters),
               Task(Absent, Txt(<<"t", "i", "k", "t", "o", "k">>), Nested(ScenarioCounters), NoCounters)} :
       raw_done = <<OneProgram(TaskProgram(t))>>
         => /\ Len(clean_data) = 1
            /\ FirstAnalytics # None
            /\ FirstAnalytics[1].likes = Some(10)
            /\ FirstAnalytics[1].comments = None

\* C11 (as claimed): an empty or unparsable participant, program or task
\* identifier becomes absent: the record is still output, with a generated
\* identity for that entity, and no transformation_error is logged.
C11_IdentifierNormalization ==
  \A p \in {Txt(<<>>), Txt(<<"z", "z">>)} :
    /\ raw_done = <<IdUser(p)>> =>
         /\ Len(clean_data) = 1 /\ TransformationErrors = <<>>
         /\ clean_data[1].user.user_id >= 1001
    /\ raw_done = <<IdProgram(p)>> =>
         /\ Len(clean_data) = 1 /\ TransformationErrors = <<>>
         /\ \A x \in ProgramsOut : x.program.program_id >= 1001
    /\ raw_done = <<IdTask(p)>> =>
         /\ Len(clean_data) = 1 /\ TransformationErrors = <<>>
         /\ \A x \in ProgramsOut : \A t \in Range(x.tasks) : t.task.task_id >= 1001

\* a raw brand that is numeric, empty or absent, and the brand a program
\* is to come out with
NoBrand(b) == b.k \in {"absent", "null", "int"} \/ b = Txt(<<>>)
BrandOut(b) == IF NoBrand(b) THEN <<"U", "n", "k", "n", "o", "w", "n">> ELSE Strip(b.s)
\* the positions <<record, program>> of the consumed programs without brand
NoBrandPrograms ==
  { ij \in (1..Len(raw_done)) \X (1..2) :
      /\ ij[2] <= Len(raw_done[ij[1]].advocacy_programs)
      /\ NoBrand(raw_done[ij[1]].advocacy_programs[ij[2]].brand) }

CanonicalLabels == {"TikTok", "Instagram", "Facebook", "YouTube", "Twitter", "Unknown"}
Spelling(l) ==
  CASE l = "TikTok" -> <<"T", "i", "k", "T", "o", "k">>
    [] l = "Instagram" -> <<"I", "n", "s", "t", "a", "g", "r", "a", "m">>
    [] l = "Facebook" -> <<"F", "a", "c", "e", "b", "o", "o", "k">>
    [] l = "YouTube" -> <<"Y", "o", "u", "T", "u", "b", "e">>
    [] l = "Twitter" -> <<"T", "w", "i", "t", "t", "e", "r">>
    [] l = "Unknown" -> <<"U", "n", "k", "n", "o", "w", "n">>
\* the labels a raw platform matches, blanks around it and case aside
Matching(v) ==
  IF v.k # "str" THEN {}
  ELSE {l \in CanonicalLabels : Lower(Strip(v.s)) = Lower(Spelling(l))}
PlatformOut(v) == IF Matching(v) = {} THEN "Unknown" ELSE CHOOSE l \in Matching(v) : TRUE
\* the positions <<record, program, task>> of the consumed tasks whose
\* platform matches no label
NoPlatformTasks ==
  { ijk \in (1..Len(raw_done)) \X (1..2) \X (1..2) :
      /\ ijk[2] <= Len(raw_done[ijk[1]].advocacy_programs)
      /\ ijk[3] <= Len(raw_done[ijk[1]].advocacy_programs[ijk[2]].tasks_completed)
      /\ Matching(raw_done[ijk[1]].advocacy_programs[ijk[2]].tasks_completed[ijk[3]].platform)
           = {} }

NoEmailRecords == {i \in 1..Len(raw_done) : clean_email(raw_done[i].email) = None}

\* C14: in a batch whose records all transform, every record without a
\* valid email has come out, attached to an account of its own that is in
\* the cache and whose placeholder email and identity no other account of
\* the run has; one high "missing_email" and one medium "invalid_email"
\* issue are logged per such record, and none for the other records.
C14_NoEmailKept ==
  FailingRecords = <<>> =>
    /\ Len(clean_data) = Len(raw_done)
    /\ Len(IssuesOfType("missing_email")) = Cardinality(NoEmailRecords)
    /\ Len(IssuesOfType("invalid_email")) = Cardinality(NoEmailRecords)
    /\ \A x \in Range(IssuesOfType("missing_email")) : x.severity = "high"
    /\ \A x \in Range(IssuesOfType("invalid_email")) : x.severity = "medium"
    /\ \A i \in NoEmailRecords :
         /\ clean_data[i].user.account_id = clean_data[i].account.account_id
         /\ clean_data[i].account.email \in DOMAIN advocate_accounts
         /\ advocate_accounts[clean_data[i].account.email] = clean_data[i].account
         /\ \A e \in DOMAIN advocate_accounts \ {clean_data[i].account.email} :
              advocate_accounts[e].account_id # clean_data[i].account.account_id
         /\ \A j \in (1..Len(clean_data)) \ {i} :
              /\ clean_data[j].account.email # clean_data[i].account.email
              /\ clean_data[j].account.account_id # clean_data[i].account.account_id

\* two records without a valid email have come out, each with its account
C14_Witness ==
  /\ Len(raw_done) = 2
  /\ NoEmailRecords = {1, 2}
  /\ Len(clean_data) = 2
  /\ Cardinality(DOMAIN advocate_accounts) = 2
  /\ Len(IssuesOfType("missing_email")) = 2
  /\ Len(IssuesOfType("invalid_email")) = 2

(***************************************************************************)
(* Properties of the account cache.                                        *)
(***************************************************************************)
\* every account an operation of the instance has handed out, with the
\* email it was asked for (lowercased)
HandedOut ==
  { [email |-> Some(Lower(resolved[i].email[1])), account |-> resolved[i].account] :
      i \in {k \in 1..Len(resolved) : resolved[k].email \notin {None, Some(<<>>)}} }
    \cup { [email |-> Some(clean_data[i].account.email),
            account |-> Some(clean_data[i].account)] : i \in 1..Len(clean_data) }

\* C15: within one instance, resolutions whose emails are equal after
\* lowercasing have returned the same account, which is the cache's entry
\* for the lowercased email; every entry of the cache is keyed by its own
\* email, no two entries share an identity, and accounts_created counts the
\* entries of the cache.
C15_AccountCache ==
  /\ \A x \in HandedOut :
       /\ x.account # None
       /\ x.email[1] \in DOMAIN advocate_accounts
       /\ advocate_accounts[x.email[1]] = x.account[1]
  /\ \A x, y \in HandedOut : x.email = y.email => x.account = y.account
  /\ \A e \in DOMAIN advocate_accounts :
       /\ advocate_accounts[e].email = e
       /\ Lower(e) = e
       /\ \A f \in DOMAIN advocate_accounts \ {e} :
            advocate_accounts[f].account_id # advocate_accounts[e].account_id
  /\ stats.accounts_created = Cardinality(DOMAIN advocate_accounts)

\* the same email in two spellings has been resolved twice, a record with
\* that email has been transformed, and all three share the one account
C15_Witness ==
  /\ Len(resolved) = 2
  /\ resolved[1].email = Some(<<"A", "n", "n", "@", "X", ".", "i", "o">>)
  /\ resolved[2].email = Some(<<"a", "n", "n", "@", "x", ".", "i", "o">>)
  /\ resolved[1].account = resolved[2].account
  /\ Len(clean_data) = 1
  /\ clean_data[1].account.email = <<"a", "n", "n", "@", "x", ".", "i", "o">>
  /\ stats.accounts_created = 1

(***************************************************************************)
(* etl/pipeline.py: Extract.  The text of a file is a sequence of          *)
(* characters: the punctuation of JSON, "k" for a member name with its     *)
(* colon, "1" for a scalar, blanks, and "x" for a character that belongs   *)
(* to no JSON text.  The members the object of a file holds are carried    *)
(* beside the text as data.                                                *)
(***************************************************************************)
Ws == {" ", "\n"}

RECURSIVE SkipWs(_, _)
SkipWs(s, i) == IF i <= Len(s) /\ s[i] \in Ws THEN SkipWs(s, i + 1) ELSE i

\* json.loads: the position after the value that starts at i, 0 when there
\* is no value there (JSONDecodeError)
RECURSIVE ParseValue(_, _)
RECURSIVE ParseElements(_, _)
RECURSIVE ParseMembers(_, _)
\* after a value of an array that ended before position e
AfterElement(s, e) ==
  With(SkipWs(s, e), LAMBDA k :
    IF e = 0 \/ k > Len(s) THEN 0
    ELSE IF s[k] = "]" THEN k + 1
    ELSE IF s[k] = "," THEN ParseElements(s, k + 1)
    ELSE 0)
ParseElements(s, i) == AfterElement(s, ParseValue(s, i))
\* after a member of an object that ended before position e
AfterMember(s, e) ==
  With(SkipWs(s, e), LAMBDA k :
    IF e = 0 \/ k > Len(s) THEN 0
    ELSE IF s[k] = "}" THEN k + 1
    ELSE IF s[k] = "," THEN ParseMembers(s, k + 1)
    ELSE 0)
ParseMembers(s, i) ==
  With(SkipWs(s, i), LAMBDA j :
    IF j > Len(s) \/ s[j] # "k" THEN 0
    ELSE AfterMember(s, ParseValue(s, j + 1)))
\* an array or object that was opened before position i
Opened(s, i, close) ==
  With(SkipWs(s, i), LAMBDA j :
    IF j > Len(s) THEN 0
    ELSE IF s[j] = close THEN j + 1
    ELSE IF close = "]" THEN ParseElements(s, j)
    ELSE ParseMembers(s, j))
ParseValue(s, i) ==
  With(SkipWs(s, i), LAMBDA j :
    IF j > Len(s) THEN 0
    ELSE IF s[j] = "1" THEN j + 1
    ELSE IF s[j] = "[" THEN Opened(s, j + 1, "]")
    ELSE IF s[j] = "{" THEN Opened(s, j + 1, "}")
    ELSE 0)
\* json.load(f) returns: one value, blanks around it, nothing else
Parses(s) ==
  With(ParseValue(s, 1), LAMBDA e : e # 0 /\ SkipWs(s, e) = Len(s) + 1)

\* content.strip().endswith(c)
EndsWith(s, c) ==
  With(RStrip(s, Ws), LAMBDA t : t # <<>> /\ t[Len(t)] = c)
\* content.rfind(c) + 1
RFind(s, c) ==
  IF \E i \in 1..Len(s) : s[i] = c
  THEN CHOOSE i \in 1..Len(s) : s[i] = c /\ \A j \in (i+1)..Len(s) : s[j] # c
  ELSE 0

\* validate_and_fix_json_file: the text the two fixes give, or None
fixed_content(content) ==
  IF EndsWith(content, "]")
  THEN Some(RStrip(content, Ws) \o <<"\n", "}">>)
  ELSE IF ~EndsWith(content, "}") /\ RFind(content, "]") # 0
  THEN Some(RStrip(SubSeq(content, 1, RFind(content, "]")), Ws) \o <<"\n", "}">>)
  ELSE None

\* AdvocacyETL.validate_and_fix_json_file: what it returns and the text of
\* the file afterwards
validate_and_fix_json_file(content) ==
  IF Parses(content) THEN [ok |-> TRUE, content |-> content]
  ELSE With(fixed_content(content), LAMBDA fixed :
         IF fixed # None /\ Parses(fixed[1])
         THEN [ok |-> TRUE, content |-> fixed[1]]
         ELSE [ok |-> FALSE, content |-> content])

\* the object every sample file holds
Document == OneProgram(SalesProgram(Num(250)))
File(text) == [text |-> text, data |-> Document]

\* texts of files: a beginning and what follows it
FileBases ==
  { <<"{", "k", "[", "1", "]", "}">>, <<"{", "k", "[", "1", "]">>, <<"{", "k", "[", "1", ",", "1", "]">>, <<"{", "k", "[", "{", "k", "1", "}", "]">>, <<"{", "k", "[", "]">>, <<"{", "k", "[", "1">>, <<"{", "k", "[", "1", ",", "]">>, <<"{", "k", "[", "1", "]", ",", "k", "1">>,
    <<"{", "k", "1">>, <<"{", "}">>, <<>> }
FileEnds ==
  { <<>>, <<"\n">>, <<" ", "\n">>, <<"x">>, <<"}">>, <<"}", "}">>, <<"x", "}">>, <<"]">>, <<"}", "x">>, <<"]", "x">>, <<"}", "\n">> }
FileSamples == {File(b \o e) : b \in FileBases, e \in FileEnds}
\* files data_dir may hold any number of times
CoreFiles == {File(<<"{", "k", "[", "1", "]", "}">>), File(<<"{", "k", "[", "1", "]">>), File(<<"{", "k", "[", "1", "]", "}", "}">>)}

\* data_dir.glob("*.json"): any files, at most one from outside the core
Directories ==
  UNION { [1..n -> CoreFiles] : n \in 0..MaxFiles }
    \cup UNION { {[d EXCEPT ![i] = f] : f \in FileSamples, i \in 1..n, d \in [1..n -> CoreFiles]} :
                 n \in 1..MaxFiles }

\* a variant that skips an invalid file without counting it
ValidateFileUncounted ==
  /\ epc = "validate"
  /\ fpos <= Len(json_files)
  /\ \E r \in {validate_and_fix_json_file(json_files[fpos].text)} :
       /\ json_files' = [json_files EXCEPT ![fpos].text = r.content]
       /\ \E c \in { IF r.ok THEN Ctx
                     ELSE log_quality_issue(Ctx, "critical", "invalid_json_file",
                                            Some(fpos), None, None) } :
            /\ data_quality_issues' = c.issues
            /\ stats' = c.stats
            /\ nextId' = c.next
       /\ valid_files' = IF r.ok THEN Append(valid_files, fpos) ELSE valid_files
  /\ fpos' = fpos + 1
  /\ UNCHANGED <<loadVars, import_id, advocate_accounts, clean_data, transformVars,
                 resolved, runVars, epc, raw_data>>

\* one turn of the validation loop of extract_json_files
ValidateFile ==
  /\ epc = "validate"
  /\ fpos <= Len(json_files)
  /\ \E r \in {validate_and_fix_json_file(json_files[fpos].text)} :
       /\ json_files' = [json_files EXCEPT ![fpos].text = r.content]
       /\ \E c \in { IF r.ok THEN Ctx
                     ELSE log_quality_issue([Ctx EXCEPT !.stats.files_failed = @ + 1],
                            "critical", "invalid_json_file", Some(fpos), None, None) } :
            /\ data_quality_issues' = c.issues
            /\ stats' = c.stats
            /\ nextId' = c.next
       /\ valid_files' = IF r.ok THEN Append(valid_files, fpos) ELSE valid_files
  /\ fpos' = fpos + 1
  /\ UNCHANGED <<loadVars, import_id, advocate_accounts, clean_data, transformVars,
                 resolved, runVars, epc, raw_data>>

\* the validation loop is through: go on to parse the valid files
ValidateDone ==
  /\ epc = "validate"
  /\ fpos > Len(json_files)
  /\ epc' = "parse"
  /\ fpos' = 1
  /\ UNCHANGED <<loadVars, etlVars, transformVars, resolved, runVars, json_files,
                 valid_files, raw_data>>

\* one turn of the parse loop: the file is read again; reading it can fail
\* although it was validated (the file is gone or unreadable by now)
ParseFile ==
  /\ epc = "parse"
  /\ fpos <= Len(valid_files)
  /\ \E readable \in BOOLEAN :
       /\ raw_data' = IF readable THEN Append(raw_data, json_files[valid_files[fpos]])
                      ELSE raw_data
       /\ \E c \in { IF readable THEN [Ctx EXCEPT !.stats.files_processed = @ + 1]
                     ELSE log_quality_issue([Ctx EXCEPT !.stats.files_failed = @ + 1],
                            "critical", "file_parse_error",
                            Some(valid_files[fpos]), None, None) } :
            /\ data_quality_issues' = c.issues
            /\ stats' = c.stats
            /\ nextId' = c.next
  /\ fpos' = fpos + 1
  /\ UNCHANGED <<loadVars, import_id, advocate_accounts, clean_data, transformVars,
                 resolved, runVars, json_files, epc, valid_files>>

\* return raw_data
ExtractReturn ==
  /\ epc = "parse"
  /\ fpos > Len(valid_files)
  /\ epc' = "done"
  /\ UNCHANGED <<loadVars, etlVars, transformVars, resolved, runVars, json_files, fpos,
                 valid_files, raw_data>>

\* a new AdvocacyETL whose extract_json_files has just listed data_dir
InitExtract ==
  /\ store = EmptyDb
  /\ tx = EmptyDb
  /\ pre = EmptyDb
  /\ lpc = "idle"
  /\ stmts = <<>>
  /\ pos = 1
  /\ email_to_account_id = EmptyMap
  /\ wlog = <<>>
  /\ outcome = NoOutcome
  /\ reload = FALSE
  /\ views = "fresh"
  /\ loads = 0
  /\ instances = 1
  /\ import_id = 901
  /\ data_quality_issues = <<>>
  /\ advocate_accounts = EmptyMap
  /\ stats = ZeroStats
  /\ nextId = 1001
  /\ clean_data = <<>>
  /\ tpc = "off"
  /\ raw_done = <<>>
  /\ resolved = <<>>
  /\ json_files \in Directories
  /\ epc = "validate"
  /\ fpos = 1
  /\ valid_files = <<>>
  /\ raw_data = <<>>
  /\ RunOff

NextExtract == ValidateFile \/ ValidateDone \/ ParseFile \/ ExtractReturn

SpecExtract == InitExtract /\ [][NextExtract]_vars

(***************************************************************************)
(* Properties of Extract.                                                  *)
(***************************************************************************)
\* the files the validation loop has been through
Validated == IF epc = "validate" THEN 1..(fpos - 1) ELSE 1..Len(json_files)
Rejected == {i \in Validated : \A k \in 1..Len(valid_files) : valid_files[k] # i}

\* C18: every file whose text does not parse, even repaired, is skipped with
\* one critical "invalid_json_file" issue of its own and one count in
\* files_failed, and the files after it are still handled; when Extract
\* returns, files_processed + files_failed is the number of files found and
\* the returned list has files_processed entries.
C18_ExtractCounts ==
  /\ \A i \in Validated :
       (i \in Rejected) = ~validate_and_fix_json_file(json_files[i].text).ok
  /\ Len(IssuesOfType("invalid_json_file")) = Cardinality(Rejected)
  /\ \A i \in Rejected :
       \E x \in Range(IssuesOfType("invalid_json_file")) :
         x.record_id = Some(i) /\ x.severity = "critical"
  /\ stats.files_failed
       = Cardinality(Rejected) + Len(IssuesOfType("file_parse_error"))
  /\ Len(raw_data) = stats.files_processed
  /\ epc = "done" =>
       /\ Validated = 1..Len(json_files)
       /\ stats.files_processed + stats.files_failed = Len(json_files)

\* Extract has returned the second of two files after it skipped the first
C18_Witness ==
  /\ epc = "done"
  /\ Len(json_files) = 2
  /\ Rejected = {1}
  /\ valid_files = <<2>>
  /\ raw_data = <<json_files[2]>>
  /\ stats.files_failed = 1
  /\ stats.files_processed = 1

\* the repair as the claim gives it: a "}" after the text that ends with
\* "]", else after the last "]" when there is one
ClaimedRepair(t) ==
  IF EndsWith(t, "]") THEN Some(RStrip(t, Ws) \o <<"}">>)
  ELSE IF RFind(t, "]") # 0 THEN Some(SubSeq(t, 1, RFind(t, "]")) \o <<"}">>)
  ELSE None
ClaimedAccepted(t) ==
  Parses(t) \/ (ClaimedRepair(t) # None /\ Parses(ClaimedRepair(t)[1]))

\* C19 (as claimed): a file is rejected only when its text, repaired by the
\* rule above, does not parse; an accepted file holds afterwards a text that
\* parses: its own when that parsed, else the repaired one.
C19_RepairHeuristic ==
  /\ \A f \in FileSamples :
       Parses(f.text) => validate_and_fix_json_file(f.text).content = f.text
  /\ \A i \in Rejected : ~ClaimedAccepted(json_files[i].text)
  /\ \A i \in Validated \ Rejected : Parses(json_files[i].text)

(***************************************************************************)
(* etl/pipeline.py: run.  The stages are the operations above, called in   *)
(* order on one instance; Transform works through the documents Extract    *)
(* returned and Load writes the batch Transform built.                     *)
(***************************************************************************)
FileWith(text, data) == [text |-> text, data |-> data]

\* a file that parses, one that the repair completes, one that is skipped,
\* one whose record has no email, one whose record fails in Transform
RunFiles ==
  { File(<<"{", "k", "[", "1", "]", "}">>), File(<<"{", "k", "[", "1", "]">>), File(<<"{", "k", "[", "1", "]", "}", "}">>),
    FileWith((<<"{", "k", "[", "1", "]">> \o <<"\n">>), Record(Null, Null, Null, Null, <<>>)),
    FileWith(<<"{", "k", "[", "1", "]", "}">>, IdProgram(Txt(<<"z", "z">>))) }

RunDirectories == UNION { [1..n -> RunFiles] : n \in 0..MaxFiles }

\* self.connect_db(); when it raises, run logs, re-raises and closes nothing
RunConnect ==
  /\ rpc = "start"
  /\ \E ok \in BOOLEAN :
       IF ok THEN /\ conn' = "open"
                  /\ rpc' = "extract"
                  /\ epc' = "validate"
       ELSE /\ conn' = "none"
            /\ rpc' = "raised"
            /\ epc' = epc
  /\ UNCHANGED <<loadVars, etlVars, transformVars, resolved, json_files, fpos,
                 valid_files, raw_data, summary>>

\* clean_data = self.transform_user_data(raw_data)
RunCallTransform ==
  /\ rpc = "extract"
  /\ epc = "done"
  /\ rpc' = "transform"
  /\ tpc' = "run"
  /\ UNCHANGED <<loadVars, etlVars, raw_done, resolved, extractVars, summary, conn>>

\* one turn of the loop of transform_user_data over the extracted documents
RunTransformRecord ==
  /\ rpc = "transform"
  /\ tpc = "run"
  /\ Len(raw_done) < Len(raw_data)
  /\ TransformTurn(raw_data[Len(raw_done) + 1].data)
  /\ UNCHANGED <<loadVars, import_id, otherVars>>

\* the loop is through the documents: return clean_data
RunTransformReturn ==
  /\ rpc = "transform"
  /\ tpc = "run"
  /\ Len(raw_done) = Len(raw_data)
  /\ tpc' = "done"
  /\ UNCHANGED <<loadVars, etlVars, raw_done, otherVars>>

\* self.load_to_database(clean_data) up to cursor.execute("BEGIN;")
RunCallLoad ==
  /\ rpc = "transform"
  /\ tpc = "done"
  /\ rpc' = "load"
  /\ stmts' = LoadStatements(clean_data, data_quality_issues, import_id)
  /\ reload' = FALSE
  /\ loads' = loads + 1
  /\ lpc' = "tx"
  /\ pos' = 1
  /\ tx' = store
  /\ pre' = store
  /\ wlog' = <<>>
  /\ email_to_account_id' = EmptyMap
  /\ outcome' = NoOutcome
  /\ UNCHANGED <<store, views, instances, etlVars, transformVars, resolved,
                 extractVars, summary, conn>>

\* load_to_database has returned: print_summary, then close_db in finally
RunSummary ==
  /\ rpc = "load"
  /\ lpc = "done"
  /\ summary' = TRUE
  /\ rpc' = "returned"
  /\ conn' = "closed"
  /\ UNCHANGED <<loadVars, etlVars, transformVars, resolved, extractVars>>

\* a variant without the finally clause: the exception leaves run at once
RunFailLeavesOpen ==
  /\ rpc = "load"
  /\ lpc = "failed"
  /\ rpc' = "raised"
  /\ UNCHANGED <<loadVars, etlVars, transformVars, resolved, extractVars, summary,
                 conn>>

\* load_to_database has raised: except logs and re-raises, finally close_db
RunFail ==
  /\ rpc = "load"
  /\ lpc = "failed"
  /\ rpc' = "raised"
  /\ conn' = "closed"
  /\ UNCHANGED <<loadVars, etlVars, transformVars, resolved, extractVars, summary>>

\* a new AdvocacyETL whose run has just been called on a directory
InitRun ==
  /\ store = EmptyDb
  /\ tx = EmptyDb
  /\ pre = EmptyDb
  /\ lpc = "idle"
  /\ stmts = <<>>
  /\ pos = 1
  /\ email_to_account_id = EmptyMap
  /\ wlog = <<>>
  /\ outcome = NoOutcome
  /\ reload = FALSE
  /\ views = "fresh"
  /\ loads = 0
  /\ instances = 1
  /\ import_id = 901
  /\ data_quality_issues = <<>>
  /\ advocate_accounts = EmptyMap
  /\ stats = ZeroStats
  /\ nextId = 1001
  /\ clean_data = <<>>
  /\ tpc = "off"
  /\ raw_done = <<>>
  /\ resolved = <<>>
  /\ json_files \in RunDirectories
  /\ epc = "off"
  /\ fpos = 1
  /\ valid_files = <<>>
  /\ raw_data = <<>>
  /\ rpc = "start"
  /\ summary = FALSE
  /\ conn = "none"

NextRun ==
  \/ RunConnect
  \/ ValidateFile
  \/ ValidateDone
  \/ ParseFile
  \/ ExtractReturn
  \/ RunCallTransform
  \/ RunTransformRecord
  \/ RunTransformReturn
  \/ RunCallLoad
  \/ LoadExec
  \/ LoadFault
  \/ LoadCommit
  \/ RefreshViews
  \/ RunSummary
  \/ RunFail

SpecRun == InitRun /\ [][NextRun]_vars

\* the run is over
RunOver == rpc \in {"returned", "raised"}

\* C17 (as claimed): a run that is over has printed the summary statistics,
\* whether it returned or raised; it has raised only if load_to_database
\* raised, and it has returned only if load_to_database returned.
C17_RunOutcome ==
  /\ RunOver => summary
  /\ rpc = "raised" => lpc = "failed"
  /\ rpc = "returned" => lpc = "done"

(***************************************************************************)
(* Sales records in storage.                                               *)
(***************************************************************************)
SalesOf(t, p) == {r \in t.sales_attribution : r.program_id = p}

RECURSIVE transform_user_data(_, _)
transform_user_data(c, records) ==
  IF records = <<>> THEN [c |-> c, out |-> <<>>]
  ELSE
    With(TransformUser(c, Head(records)), LAMBDA done :
    With(transform_user_data(IF done.ok THEN done.c
                             ELSE OnRecordError(done.c, Head(records)).c,
                             Tail(records)),
         LAMBDA rest :
      [c |-> rest.c, out |-> done.out \o rest.out]))

\* a new instance whose uuid4() and clock hand out other values
OtherCtx == [NewCtx EXCEPT !.next = 2001]

\* the fields of an output tuple that are not identities or references
PlainTaskOut(t) ==
  [ platform |-> t.task.platform,
    analytics |->
      IF t.analytics = None THEN None
      ELSE Some([ likes |-> t.analytics[1].likes,
                  comments |-> t.analytics[1].comments,
                  shares |-> t.analytics[1].shares,
                  reach |-> t.analytics[1].reach,
                  impressions |-> t.analytics[1].impressions,
                  measured_at |-> t.analytics[1].measured_at ]) ]
PlainProgram(p) ==
  [ brand |-> p.program.brand,
    amount |-> IF p.sales = None THEN None ELSE Some(p.sales[1].amount),
    tasks |-> [i \in 1..Len(p.tasks) |-> PlainTaskOut(p.tasks[i])] ]
PlainEntry(e) ==
  [ email |-> e.account.email, name |-> e.user.name,
    instagram_handle |-> e.user.instagram_handle,
    tiktok_handle |-> e.user.tiktok_handle,
    programs |-> [i \in 1..Len(e.programs) |-> PlainProgram(e.programs[i])] ]
PlainOutput(out) == [i \in 1..Len(out) |-> PlainEntry(out[i])]
IssueKinds(issues) ==
  [i \in 1..Len(issues) |->
     [severity |-> issues[i].severity, issue_type |-> issues[i].issue_type]]

\* C22: a second execution of transform_user_data on the records consumed so
\* far, by an instance whose generated values differ, gives an output that
\* agrees with this one on every field that is not an identity (emails,
\* names, handles, brands, platforms, timestamps, counters, amounts) and the
\* same sequence of issue severities and types
C22_TransformDeterminism ==
  With(transform_user_data(OtherCtx, raw_done), LAMBDA second :
    /\ PlainOutput(second.out) = PlainOutput(clean_data)
    /\ IssueKinds(second.c.issues) = IssueKinds(data_quality_issues))

(***************************************************************************)
(* Flat and nested analytics of a raw task.                                *)
(***************************************************************************)
RawTasksDone ==
  UNION {UNION {Range(p.tasks_completed) : p \in Range(r.advocacy_programs)} :
           r \in Range(raw_done)}
HasFlat(t) == \E f \in CounterFields : t.flat[f].k # "absent"
NoNested(t) == t.analytics.k \in {"absent", "null"}

\* C23: of every raw task consumed that passes validation, the RawTask has
\* the analytics built from the flat counters when the nested object is
\* missing or null and a flat counter is given; the analytics of the nested
\* object, whatever the flat counters are, when it is given; and no analytics
\* when neither is given
C23_FlatToNested ==
  \A t \in RawTasksDone :
    With(RawTask(t), LAMBDA task :
      task.ok =>
        /\ NoNested(t) /\ HasFlat(t) =>
             task.analytics = Some(RawSocialAnalytics(t.flat))
        /\ ~NoNested(t) =>
             task.analytics = Some(RawSocialAnalytics(t.analytics.d))
        /\ NoNested(t) /\ ~HasFlat(t) => task.analytics = None)

(***************************************************************************)
(* The raw_imports row of a run.                                           *)
(***************************************************************************)
ImportsOf(t, imp) == {r \in t.raw_imports : r.import_id = imp}

\* C24: once a load has committed, storage holds exactly one raw_imports row
\* of the instance's import_id, "completed" and counting the entries of the
\* batch; no committed row is ever "processing"; and the insert of a row for
\* an import_id that has one never fails and never adds a second row
C24_ImportLifecycle ==
  /\ Committed =>
       ImportsOf(store, import_id) =
         {[import_id |-> import_id, processing_status |-> "completed",
           records_count |-> Some(Len(clean_data))]}
  /\ \A r \in store.raw_imports : r.processing_status # "processing"
  /\ \A t \in {store, tx} : \A r \in t.raw_imports :
       Cardinality(ImportsOf(t, r.import_id)) <= 1
  /\ lpc = "failed" /\ outcome.cause = "constraint" => stmts[pos].kind # "import"

\* an instance has loaded a second time: its import_id had a committed row
\* when the insert ran, and the load has returned
C24_Witness ==
  /\ lpc = "done"
  /\ ImportsOf(pre, import_id) # {}
  /\ Cardinality(ImportsOf(store, import_id)) = 1
  /\ \E i \in 1..Len(wlog) : wlog[i].kind = "import"

(***************************************************************************)
(* The metadata of an account that is upserted over a stored row.          *)
(***************************************************************************)
\* the account statements of the running load that have been executed
AccountsUpserted ==
  {stmts[i].arg : i \in {j \in 1..Len(stmts) : j < pos /\ stmts[j].kind = "account"}}

\* C25: when a load has upserted an account whose email had a row in storage,
\* the row keeps its account_id and its metadata holds the keys stored before
\* together with the keys of the incoming account
C25_MetadataMerge ==
  lpc \in {"tx", "committed", "done"} =>
    \A a \in AccountsUpserted : \A r \in pre.advocate_accounts :
      r.email = a.email =>
        \E q \in tx.advocate_accounts :
          /\ q.email = a.email
          /\ q.account_id = r.account_id
          /\ q.metadata = r.metadata \cup a.metadata

(***************************************************************************)
(* Issues logged for identifiers that Transform generates.                 *)
(***************************************************************************)
\* the consumed records that gave an output tuple, in the order of clean_data
OkRecords == SelectSeq(raw_done, LAMBDA r : TransformUser(NewCtx, r).ok)

\* an issue about the identifier field of the entity with the identity id:
\* the issue names the field, and its record_id is the entity's where the
\* issue type carries an identity there
IssueAbout(field, id) ==
  \E i \in 1..Len(data_quality_issues) :
    With(data_quality_issues[i], LAMBDA issue :
      /\ issue.field = Some(field)
      /\ issue.issue_type \notin {"missing_email", "transformation_error"}
      /\ issue.record_id = Some(id))
IssueOnField(field) ==
  \E i \in 1..Len(data_quality_issues) : data_quality_issues[i].field = Some(field)

\* C26: an output participant whose raw user_id was absent has a medium
\* "missing_user_id" issue with its generated identity; an output task whose
\* raw task_id was absent has an issue logged for its generated identity; an
\* output program whose raw program_id was absent has no issue about it
C26_MissingIdentifierIssues ==
  /\ Len(OkRecords) = Len(clean_data)
  /\ \A i \in 1..Len(clean_data) :
       With(RawAdvocateUser(OkRecords[i]), LAMBDA raw_user :
       With(clean_data[i], LAMBDA e :
         /\ raw_user.user_id = None =>
              \E n \in 1..Len(data_quality_issues) :
                With(data_quality_issues[n], LAMBDA issue :
                  /\ issue.issue_type = "missing_user_id"
                  /\ issue.severity = "medium"
                  /\ issue.record_id = Some(e.user.user_id))
         /\ \A j \in 1..Len(e.programs) :
              With(raw_user.advocacy_programs[j], LAMBDA raw_program :
                /\ raw_program.program_id = None => ~IssueOnField("program_id")
                /\ \A k \in 1..Len(e.programs[j].tasks) :
                     raw_program.tasks[k].task_id = None =>
                       \/ IssueAbout("task_id", e.programs[j].tasks[k].task.task_id)
                       \/ IssueOnField("task_id"))))

(***************************************************************************)
(* What a record that fails leaves behind.                                 *)
(***************************************************************************)
AccountsOut(cd) == {cd[i].account.account_id : i \in 1..Len(cd)}

\* C27: a turn of the loop that consumes a record and adds no output tuple
\* leaves the account cache and accounts_created as they were and adds to the
\* issue list its "transformation_error" issue only; and after every turn
\* accounts_created is the number of distinct accounts in the output
C27_SkippedRecordFrame ==
  [][ /\ Len(raw_done') = Len(raw_done) + 1 /\ clean_data' = clean_data =>
           /\ advocate_accounts' = advocate_accounts
           /\ stats'.accounts_created = stats.accounts_created
           /\ Len(data_quality_issues') = Len(data_quality_issues) + 1
           /\ SubSeq(data_quality_issues', 1, Len(data_quality_issues))
                = data_quality_issues
           /\ data_quality_issues'[Len(data_quality_issues')].issue_type
                = "transformation_error"
      /\ stats'.accounts_created = Cardinality(AccountsOut(clean_data'))
    ]_vars

(***************************************************************************)
(* References inside an output tuple.                                      *)
(***************************************************************************)
\* C28: in every output tuple the participant references the account of the
\* tuple, every program the participant, every task and every sales record
\* the program it is nested under, and every analytics record its task
C28_OutputReferences ==
  \A i \in 1..Len(clean_data) :
    With(clean_data[i], LAMBDA e :
      /\ e.user.account_id = e.account.account_id
      /\ \A j \in 1..Len(e.programs) :
           With(e.programs[j], LAMBDA p :
             /\ p.program.user_id = e.user.user_id
             /\ p.sales # None => p.sales[1].program_id = p.program.program_id
             /\ \A k \in 1..Len(p.tasks) :
                  /\ p.tasks[k].task.program_id = p.program.program_id
                  /\ p.tasks[k].analytics # None =>
                       p.tasks[k].analytics[1].task_id = p.tasks[k].task.task_id))

\* the output holds two tuples of different participants that share one
\* account, the second with a program that has a sales record and a task
\* with analytics
C28_Witness ==
  /\ Len(clean_data) = 2
  /\ clean_data[1].user.user_id # clean_data[2].user.user_id
  /\ clean_data[1].account = clean_data[2].account
  /\ clean_data[2].programs # <<>>
  /\ clean_data[2].programs[1].sales # None
  /\ clean_data[2].programs[1].tasks # <<>>
  /\ clean_data[2].programs[1].tasks[1].analytics # None

(***************************************************************************)
(* The per-entity counters of a run against the rows it committed.         *)
(***************************************************************************)
EntityCounters ==
  {"users_created", "programs_created", "sales_created", "tasks_created",
   "analytics_created"}
RowsOf(t, counter) ==
  CASE counter = "users_created" -> t.advocate_users
    [] counter = "programs_created" -> t.programs
    [] counter = "sales_created" -> t.sales_attribution
    [] counter = "tasks_created" -> t.tasks
    [] counter = "analytics_created" -> t.social_analytics

\* C29: when the first load into an empty database has returned or raised,
\* no entity counter of the instance exceeds the number of rows of its kind
\* in storage, all of which this load committed; and when it has raised and
\* was rolled back, the counters have the value zero they had before it
C29_CountersPersisted ==
  instances = 1 /\ loads = 1 =>
    /\ lpc \in {"done", "failed"} =>
         \A c \in EntityCounters : stats[c] <= Cardinality(RowsOf(store, c))
    /\ lpc = "failed" => \A c \in EntityCounters : stats[c] = 0

(***************************************************************************)
(* The database connection of a run.                                       *)
(***************************************************************************)
\* C30: a run opens a connection only when it has none and has opened none
\* before, a closed connection stays closed, the rows of the transaction and
\* of storage change only while the connection is open, and a run that is
\* over, returned or raised, has no open connection
C30_ConnectionLifecycle ==
  [][ /\ conn' = "open" /\ conn # "open" => conn = "none" /\ rpc = "start"
      /\ conn = "closed" => conn' = "closed"
      /\ tx' # tx \/ store' # store => conn = "open" /\ conn' = "open"
      /\ RunOver' => conn' # "open"
    ]_vars

\* a run has raised after load_to_database wrote rows on its connection and
\* failed; the connection is closed
C30_Witness ==
  /\ rpc = "raised"
  /\ lpc = "failed"
  /\ Len(wlog) > 1
  /\ conn = "closed"

====
